---- MODULE Spec2Model ----
(***************************************************************************)
(* State engine of socialflow-app: ImmutableStateManager (state-manager.js) *)
(* with the callers it has in SocialFlowApp (app.js).                       *)
(*                                                                          *)
(* JavaScript runs one job at a time.  A macrotask (a user call, a network  *)
(* response, a timer, a window event) runs to completion, then the          *)
(* microtask queue is drained in FIFO order.  Every action below is one     *)
(* synchronous stretch of code: it runs from its entry point to the next    *)
(* await / queueMicrotask / return.                                         *)
(***************************************************************************)
EXTENDS Integers, Sequences, FiniteSets, TLC

VARIABLES
    state,        \* this._state: field name -> value
    history,      \* this.history: <<[previous, current]>>
    isMutating,   \* this.isMutating
    subscribers,  \* this.subscribers: key -> sequence of callbacks (insertion order)
    microtasks,   \* the microtask queue of the event loop
    subs,         \* every setState call so far, in call order, with its outcome
    procs,        \* every async method invocation so far, with its position
    requests,     \* every fetch() issued so far, with its status
    storage,      \* localStorage
    saveTimer,    \* the timeout of saveToStorageDebounced is armed
    now,          \* Date.now()
    notifyLog,    \* every subscriber callback invocation so far
    unsubscribes, \* the unsubscribe functions subscribe() has returned: {<<key, callback>>}
    returned,     \* what the last direct call of a synchronous method returned
    storageFull,  \* localStorage.setItem throws (the quota is exceeded)
    auth,         \* the SecureAuthManager
    errorBoundary, \* the ComprehensiveErrorBoundary
    player        \* an AdvancedVideoPlayer

vars == <<state, history, isMutating, subscribers, microtasks, subs, procs,
          requests, storage, saveTimer, now, notifyLog, unsubscribes, returned,
          storageFull, auth, errorBoundary, player>>

\* The variables of the state manager
storeVars == <<state, history, isMutating, subscribers, microtasks, subs, procs,
               requests, storage, saveTimer, now, notifyLog, unsubscribes, returned,
               storageFull>>

-----------------------------------------------------------------------------
(* Bounds of the model *)

MaxSubs == 4       \* setState calls in one behaviour
MaxProcs == 2      \* async method invocations in one behaviour
MaxSubscribes == 3 \* subscribe() calls in one behaviour
MaxNow == 3        \* the clock stops here
MaxCommits == 2    \* setState calls in the notification scenario
MaxInvalidations == 1 \* invalidateCache calls in the cache scenario
MaxLongRun == 52   \* setState calls in the long-run scenario
MaxRejections == 1 \* setState calls with an updater that returns null in that scenario
MaxAuthCalls == 3  \* async SecureAuthManager invocations in one behaviour
MaxErrorEvents == 12 \* error and unhandledrejection events in one behaviour
MaxClock == 3      \* the clock of the error scenario stops here
MaxMedia == 3      \* media elements in the container of a player
MaxPlayerCalls == 3 \* play, pause and switchMedia calls in one behaviour

-----------------------------------------------------------------------------
(* JavaScript values: [kind, v].  typeof is computed from kind. *)

Undefined == [kind |-> "undefined", v |-> 0]
Null == [kind |-> "null", v |-> 0]
Bool(b) == [kind |-> "boolean", v |-> b]
Str(s) == [kind |-> "string", v |-> s]
Num(n) == [kind |-> "number", v |-> n]
SetOf(S) == [kind |-> "Set", v |-> S]
MapOf(f) == [kind |-> "Map", v |-> f]
Arr(q) == [kind |-> "Array", v |-> q]
Obj(r) == [kind |-> "Object", v |-> r]

EmptyMap == MapOf(<<>>)

TypeOf(x) ==
    CASE x.kind = "undefined" -> "undefined"
      [] x.kind = "boolean" -> "boolean"
      [] x.kind = "string" -> "string"
      [] x.kind = "number" -> "number"
      [] OTHER -> "object"

\* obj[key] of a JavaScript object: undefined when the key is absent
Get(obj, key) == IF key \in DOMAIN obj THEN obj[key] ELSE Undefined

\* { ...a, ...b }
Spread(a, b) ==
    [k \in (DOMAIN a) \cup (DOMAIN b) |-> IF k \in DOMAIN b THEN b[k] ELSE a[k]]

\* The keys of this._state, in the order the constructor creates them
FieldOrder ==
    <<"user", "videos", "likedVideos", "savedVideos", "currentMediaIndexes",
      "online", "pendingActions", "cache", "ui">>

\* A field callers add to a snapshot that the constructor does not create
ExtraFields == <<"draft">>

Range(q) == {q[i] : i \in 1..Len(q)}

RECURSIVE SelectSeqBy(_, _)
\* q.filter(x => x \in S), order kept
SelectSeqBy(q, S) ==
    IF q = <<>> THEN <<>>
    ELSE (IF Head(q) \in S THEN <<Head(q)>> ELSE <<>>) \o SelectSeqBy(Tail(q), S)

DefaultUi ==
    Obj([theme |-> "dark", language |-> "tr", videoQuality |-> "auto",
         autoplay |-> TRUE, notifications |-> TRUE])

\* The constructor's this._state, for a given navigator.onLine
InitialState(onLine) ==
    [k \in Range(FieldOrder) |->
        CASE k = "user" -> Null
          [] k = "videos" -> EmptyMap
          [] k = "likedVideos" -> SetOf({})
          [] k = "savedVideos" -> SetOf({})
          [] k = "currentMediaIndexes" -> EmptyMap
          [] k = "online" -> Bool(onLine)
          [] k = "pendingActions" -> Arr(<<>>)
          [] k = "cache" -> EmptyMap
          [] k = "ui" -> DefaultUi]

-----------------------------------------------------------------------------
(* validateState *)

\* schema without the entry for online
schema_WithoutOnline ==
    [user |-> {"object", "null"}, videos |-> {"object"}, likedVideos |-> {"object"},
     savedVideos |-> {"object"}, ui |-> {"object"}]

schema ==
    [user |-> {"object", "null"}, videos |-> {"object"}, likedVideos |-> {"object"},
     savedVideos |-> {"object"}, online |-> {"boolean"}, ui |-> {"object"}]

\* validateState(state) for an object; FALSE when a schema key has a wrong typeof
validateState(s) ==
    \A key \in DOMAIN schema : TypeOf(Get(s, key)) \in schema[key]

-----------------------------------------------------------------------------
(* Updaters: what callers pass to setState.  [op, with] *)

\* a replacement value, e.g. setState({ online: true })
Value(obj) == [op |-> "value", with |-> obj]
\* likeVideo / saveVideo: state => ({ field: new Set(on ? [...set, id] : filter) })
Member(field, id, on) == [op |-> "member", with |-> [field |-> field, id |-> id, on |-> on]]
\* getWithCache: state => ({ cache: new Map(state.cache).set(key, {data, timestamp}) })
CacheSet(key, data, ts) == [op |-> "cacheSet", with |-> [key |-> key, data |-> data, ts |-> ts]]
\* invalidateCache: state => { ...delete keys that include pattern...; return {cache} }
CacheDelete(pattern) == [op |-> "cacheDelete", with |-> [pattern |-> pattern]]
\* queueAction: state => ({ pendingActions: [...state.pendingActions, action] })
Enqueue(action) == [op |-> "enqueue", with |-> [action |-> action]]
\* syncPendingActions: state => ({ pendingActions: filter(a => a.id !== id) })
Dequeue(id) == [op |-> "dequeue", with |-> [id |-> id]]
\* a caller's updater that returns every field: state => ({ ...state, ...u(state) })
Whole(u) == [op |-> "whole", with |-> u]
\* a caller's updater that returns null
ReturnsNull == [op |-> "null", with |-> 0]
\* a caller's updater that throws
ThrowingUpdater == [op |-> "throw", with |-> 0]
\* loadFromStorage: state => ({ user, likedVideos, savedVideos, currentMediaIndexes, ui })
\* built from storageData
Load(storageData) == [op |-> "load", with |-> storageData]

RECURSIVE IsPrefix(_, _)
IsPrefix(p, q) ==
    \/ p = <<>>
    \/ /\ q # <<>>
       /\ Head(p) = Head(q)
       /\ IsPrefix(Tail(p), Tail(q))

RECURSIVE Includes(_, _)
\* key.includes(pattern); strings are sequences of tokens
Includes(key, pattern) ==
    \/ IsPrefix(pattern, key)
    \/ /\ key # <<>>
       /\ Includes(Tail(key), pattern)

\* new Map(m).set(k, x)
MapSet(m, k, x) == [j \in (DOMAIN m) \cup {k} |-> IF j = k THEN x ELSE m[j]]
\* m with the keys in D deleted
MapDelete(m, D) == [j \in (DOMAIN m) \ D |-> m[j]]

RECURSIVE RunUpdater(_, _, _)
\* typeof updater === 'function' ? updater(this._state) : updater.
\* n numbers the call: a new object made by the updater has identity n.
\* Result: [ok, obj]; ok is FALSE when the result is null (validateState throws on it)
\* and when the updater throws.
RunUpdater(u, s, n) ==
    CASE u.op = "value" -> [ok |-> TRUE, obj |-> u.with]
      [] u.op = "member" ->
            [ok |-> TRUE,
             obj |-> [k \in {u.with.field} |->
                        SetOf(IF u.with.on THEN s[k].v \cup {u.with.id}
                                          ELSE s[k].v \ {u.with.id})]]
      [] u.op = "cacheSet" ->
            [ok |-> TRUE,
             obj |-> [k \in {"cache"} |->
                        MapOf(MapSet(s.cache.v, u.with.key,
                                     [data |-> u.with.data, timestamp |-> u.with.ts, ref |-> n]))]]
      [] u.op = "cacheDelete" ->
            [ok |-> TRUE,
             obj |-> [k \in {"cache"} |->
                        MapOf(MapDelete(s.cache.v,
                            {j \in DOMAIN s.cache.v : Includes(j, u.with.pattern)}))]]
      [] u.op = "enqueue" ->
            [ok |-> TRUE,
             obj |-> [k \in {"pendingActions"} |->
                        Arr(Append(s.pendingActions.v, u.with.action))]]
      [] u.op = "dequeue" ->
            [ok |-> TRUE,
             obj |-> [k \in {"pendingActions"} |->
                        Arr(SelectSeqBy(s.pendingActions.v,
                            {a \in Range(s.pendingActions.v) : a.id # u.with.id}))]]
      [] u.op = "load" ->
            LET d == u.with
            IN  [ok |-> TRUE,
                 obj |-> [k \in {"user", "likedVideos", "savedVideos",
                                 "currentMediaIndexes", "ui"} |->
                    CASE k = "user" -> IF d[k] = Null THEN s.user ELSE d[k]
                      [] k = "currentMediaIndexes" ->
                            MapOf(IF d[k] = Null THEN <<>> ELSE d[k].v)
                      [] k = "ui" ->
                            Obj(IF d[k] = Null THEN s.ui.v ELSE Spread(s.ui.v, d[k].v))
                      [] OTHER -> SetOf(IF d[k] = Null THEN {} ELSE Range(d[k].v))]]
      [] u.op = "whole" ->
            LET r == RunUpdater(u.with, s, n)
            IN  IF r.ok THEN [ok |-> TRUE, obj |-> Spread(s, r.obj)] ELSE r
      [] OTHER -> [ok |-> FALSE, obj |-> <<>>]

-----------------------------------------------------------------------------
(* getChangedKeys / isEqual *)

\* JSON.stringify(x) as far as isEqual can tell two values apart by it:
\* a Map or a Set serializes as "{}", whatever it holds
Stringify(x) ==
    IF x.kind \in {"Set", "Map"} THEN Obj(<<>>) ELSE x

\* m.get(k): undefined when the Map has no key k
MapGet(m, k) == IF k \in DOMAIN m THEN m[k] ELSE Undefined

\* b.get(k) === v for the values of two Maps: an entry object carries its
\* identity in ref, any other value is compared by value
SameEntry(x, y) == x = y

\* isEqual without the Map and Set branches: a collection equals only itself,
\* and an updater allocates a new one
isEqual_NoCollections(a, b) ==
    IF a.kind # b.kind THEN Stringify(a) = Stringify(b)
    ELSE a.kind \notin {"Map", "Set"} /\ a = b

isEqual(a, b) ==
    IF a.kind # b.kind THEN Stringify(a) = Stringify(b)
    ELSE CASE a.kind = "Map" ->
                /\ Cardinality(DOMAIN a.v) = Cardinality(DOMAIN b.v)
                /\ \A k \in DOMAIN a.v : SameEntry(MapGet(b.v, k), a.v[k])
           [] a.kind = "Set" ->
                /\ Cardinality(a.v) = Cardinality(b.v)
                /\ \A item \in a.v : item \in b.v
           [] OTHER -> a = b

\* the changed keys, in key order
getChangedKeys(previous, current) ==
    SelectSeqBy(FieldOrder \o ExtraFields,
        {key \in (DOMAIN previous) \cup (DOMAIN current) :
            ~isEqual(Get(previous, key), Get(current, key))})

-----------------------------------------------------------------------------
(* The other components of the application, as they are after construction *)

\* new SecureAuthManager()
\* token: this.token is set; stored: what sessionStorage holds under
\* socialflow_temp_token; tokenRefreshTimeout: the timeout id, 0 for null;
\* timers: the ids of the timeouts that are armed; controller: the number of
\* the current AbortController; aborted: the controllers that were aborted;
\* calls: every async method invocation so far, with its frames
AuthConstructed ==
    [token |-> FALSE, user |-> "none", isDemoMode |-> FALSE,
     tokenRefreshTimeout |-> 0, timers |-> {}, made |-> 0,
     stored |-> "none", controller |-> 1, aborted |-> {}, calls |-> <<>>]

\* new ComprehensiveErrorBoundary()
\* timers: the times at which the armed decrement timeouts are due, in the
\* order they were armed; shown: the time of every call that displayed and
\* reported its error; events: the number of events handled so far
BoundaryConstructed ==
    [isActive |-> FALSE, errorCount |-> 0, unhandledRejections |-> {},
     timers |-> <<>>, shown |-> <<>>, events |-> 0]

\* new AdvancedVideoPlayer(container), for a container whose media elements
\* have the tag names tags (this.mediaElements[i] is tags[i + 1]).
\* playPromise: this.playPromise is set; paused: the elements whose `paused`
\* is true; plays: every play() promise of an element so far, [index, status];
\* events: the media events queued for dispatch; loaded: the elements whose
\* src was assigned; calls: the calls made from outside so far
PlayerConstructed(tags) ==
    [mediaElements |-> tags, currentMediaIndex |-> 0, isPlaying |-> FALSE,
     isLoading |-> FALSE, playPromise |-> FALSE, paused |-> 0..(Len(tags) - 1),
     plays |-> <<>>, events |-> {}, loaded |-> {}, calls |-> <<>>]

-----------------------------------------------------------------------------
(* The engine as one record, so that a handler is a function from the      *)
(* engine before it ran to the engine after it ran.                        *)

Env ==
    [state |-> state, history |-> history, isMutating |-> isMutating,
     subscribers |-> subscribers, microtasks |-> microtasks, subs |-> subs,
     procs |-> procs, requests |-> requests, storage |-> storage,
     saveTimer |-> saveTimer, now |-> now, notifyLog |-> notifyLog,
     unsubscribes |-> unsubscribes, returned |-> returned,
     storageFull |-> storageFull]

Becomes(e) ==
    /\ state' = e.state
    /\ history' = e.history
    /\ isMutating' = e.isMutating
    /\ subscribers' = e.subscribers
    /\ microtasks' = e.microtasks
    /\ subs' = e.subs
    /\ procs' = e.procs
    /\ requests' = e.requests
    /\ storage' = e.storage
    /\ saveTimer' = e.saveTimer
    /\ now' = e.now
    /\ notifyLog' = e.notifyLog
    /\ unsubscribes' = e.unsubscribes
    /\ returned' = e.returned
    /\ storageFull' = e.storageFull
    /\ UNCHANGED <<auth, errorBoundary, player>>

\* microtasks: the deferred body of setState call n; the continuation of proc p
\* after the promise it awaits settled with outcome res
Body(n) == [kind |-> "body", id |-> n, res |-> "ok"]
Resume(p, res) == [kind |-> "resume", id |-> p, res |-> res]

\* saveToStorage(key, value): localStorage.setItem(`socialflow_${key}`, JSON.stringify(value))
\* inside try/catch: when setItem throws, the error is logged and the item stays
\* as it was.  The item is kept as JSON.parse will read it back.
saveToStorage(e, key, value) ==
    IF e.storageFull THEN e
    ELSE [e EXCEPT !.storage = MapSet(@, key, Stringify(value))]

\* saveToStorageDebounced(): clearTimeout(timeout); timeout = setTimeout(later, 1000)
saveToStorageDebounced(e) == [e EXCEPT !.saveTimer = TRUE]

\* setState with the deferred body queued also for a call made while isMutating is set
setState_DeferWhileMutating(e, updater, awaiter) ==
    [e EXCEPT
        !.isMutating = TRUE,
        !.subs = Append(@, [updater |-> updater,
                            status |-> IF e.isMutating THEN "dropped" ELSE "queued",
                            awaiter |-> awaiter]),
        !.microtasks = Append(@, Body(Len(e.subs) + 1))]

\* setState(updater), called by proc `awaiter` that awaits the returned promise
\* (0: nobody awaits it)
setState(e, updater, awaiter) ==
    IF e.isMutating
    THEN \* return Promise.resolve(): an awaiter continues in a microtask
         [e EXCEPT
            !.subs = Append(@, [updater |-> updater, status |-> "dropped",
                                awaiter |-> awaiter]),
            !.microtasks = IF awaiter # 0 THEN Append(@, Resume(awaiter, "ok")) ELSE @]
    ELSE [e EXCEPT
            !.isMutating = TRUE,
            !.subs = Append(@, [updater |-> updater, status |-> "queued",
                                awaiter |-> awaiter]),
            !.microtasks = Append(@, Body(Len(e.subs) + 1))]

\* The records the debounced save writes, in the order it writes them
DebouncedKeys == <<"user", "likedVideos", "savedVideos", "currentMediaIndexes", "ui">>

RECURSIVE ArrayFrom(_)
\* Array.from(set): every member once (a Set of the model keeps no insertion order)
ArrayFrom(S) ==
    IF S = {} THEN <<>>
    ELSE LET x == CHOOSE x \in S : TRUE
         IN  <<x>> \o ArrayFrom(S \ {x})

\* The debounced save's value for a key taken from the snapshot before the last commit
DebouncedValue_BeforeLastCommit(e, key) ==
    LET s == IF e.history = <<>> THEN e.state ELSE e.history[Len(e.history)].previous
    IN  CASE key \in {"likedVideos", "savedVideos"} -> Arr(ArrayFrom(s[key].v))
          [] key = "currentMediaIndexes" -> Obj(s[key].v)
          [] OTHER -> s[key]

\* What the debounced save passes to saveToStorage for a key: this.state.user,
\* Array.from(this.state.likedVideos), Array.from(this.state.savedVideos),
\* Object.fromEntries(this.state.currentMediaIndexes), this.state.ui, each read
\* when its write is made
DebouncedValue(e, key) ==
    CASE key \in {"likedVideos", "savedVideos"} -> Arr(ArrayFrom(e.state[key].v))
      [] key = "currentMediaIndexes" -> Obj(e.state[key].v)
      [] OTHER -> e.state[key]

\* saveLater with the timeout left armed, so that it expires again
saveLater_KeepArmed(e) ==
    LET p == Len(e.procs) + 1
        e1 == saveToStorage(e, DebouncedKeys[1], DebouncedValue(e, DebouncedKeys[1]))
    IN  [e1 EXCEPT
            !.procs = Append(@, [op |-> "saveToStorageDebounced", out |-> "",
                                 pc |-> "saving", with |-> [i |-> 1]]),
            !.microtasks = Append(@, Resume(p, "ok"))]

\* The timeout of saveToStorageDebounced fires: later() clears the timeout and
\* calls the async function, which runs up to its first await
saveLater(e) ==
    LET p == Len(e.procs) + 1
        e1 == saveToStorage([e EXCEPT !.saveTimer = FALSE], DebouncedKeys[1],
                            DebouncedValue(e, DebouncedKeys[1]))
    IN  [e1 EXCEPT
            !.procs = Append(@, [op |-> "saveToStorageDebounced", out |-> "",
                                 pc |-> "saving", with |-> [i |-> 1]]),
            !.microtasks = Append(@, Resume(p, "ok"))]

\* The debounced save resumed after `await this.saveToStorage(...)`: the next
\* write, or the end of the function.  with.i counts the writes made.
resumeSave(e, p, res) ==
    LET i == e.procs[p].with.i
    IN  IF i < Len(DebouncedKeys)
        THEN LET e1 == saveToStorage(e, DebouncedKeys[i + 1],
                                     DebouncedValue(e, DebouncedKeys[i + 1]))
             IN  [e1 EXCEPT !.procs[p].with.i = i + 1,
                            !.microtasks = Append(@, Resume(p, "ok"))]
        ELSE [e EXCEPT !.procs[p].pc = "done", !.procs[p].out = "resolved"]

-----------------------------------------------------------------------------
(* Remote calls and the offline queue *)

\* apiRequest(url, options) called by proc p: fetch() is issued at once
apiRequest(e, p, kind, what) ==
    [e EXCEPT !.requests = Append(@, [kind |-> kind, proc |-> p,
                                      status |-> "inflight", what |-> what])]

\* processAction(action) awaited by proc p: 'like' and 'save' issue a request,
\* any other type falls through the switch and resolves at once
processAction(e, p, action) ==
    IF action.type \in {"like", "save"}
    THEN apiRequest(e, p, "replay", action)
    ELSE [e EXCEPT !.microtasks = Append(@, Resume(p, "ok"))]

\* The for loop of syncPendingActions from its position with.i on: the next
\* processAction, or after the loop saveToStorage('pendingActions', ...) and its await
syncLoop(e, p) ==
    LET w == e.procs[p].with
    IN  IF w.i <= Len(w.acts)
        THEN processAction([e EXCEPT !.procs[p].pc = "remote"], p, w.acts[w.i])
        ELSE LET e1 == saveToStorage(e, "pendingActions", e.state.pendingActions)
             IN  [e1 EXCEPT !.procs[p].pc = "saving",
                            !.microtasks = Append(@, Resume(p, "ok"))]

\* syncPendingActions(), up to its first await
syncPendingActions(e) ==
    LET p == Len(e.procs) + 1
        e1 == [e EXCEPT !.procs = Append(@,
                  [op |-> "syncPendingActions", out |-> "", pc |-> "start",
                   with |-> [acts |-> e.state.pendingActions.v, i |-> 1]])]
    IN  syncLoop(e1, p)

\* syncPendingActions resumed after `await this.processAction(action)` settled
resumeSync(e, p, res) ==
    LET w == e.procs[p].with
    IN  CASE e.procs[p].pc = "remote" /\ res = "ok" ->
                \* setState(remove action.id), then the next iteration
                LET e1 == setState(e, Dequeue(w.acts[w.i].id), 0)
                IN  syncLoop([e1 EXCEPT !.procs[p].with.i = w.i + 1], p)
          [] e.procs[p].pc = "remote" /\ res # "ok" ->
                \* catch: break
                syncLoop([e EXCEPT !.procs[p].with.i = Len(w.acts) + 1], p)
          [] OTHER -> \* after `await this.saveToStorage(...)`
                [e EXCEPT !.procs[p].pc = "done", !.procs[p].out = "resolved"]

\* queueAction(type, data)
queueAction(e, type, data) ==
    LET action == [type |-> type, data |-> data, timestamp |-> e.now,
                   id |-> 100 + Len(e.subs) + 1]
        e1 == setState(e, Enqueue(action), 0)
    IN  saveToStorage(e1, "pendingActions", e1.state.pendingActions)

\* invalidateCache(pattern)
invalidateCache(e, pattern) == setState(e, CacheDelete(pattern), 0)

-----------------------------------------------------------------------------
(* Startup: init / loadFromStorage *)

StorageKeys == <<"user", "likedVideos", "savedVideos", "currentMediaIndexes", "ui">>

\* getStorage(key): JSON.parse of the item, null when there is none
getStorage(e, key) == IF key \in DOMAIN e.storage THEN e.storage[key] ELSE Null

\* loadFromStorage(), called by init (op = "init") or by the 'storage' listener,
\* up to its first `await this.getStorage(key)`: the item is read at once
loadFromStorage(e, op) ==
    [e EXCEPT
        !.procs = Append(@, [op |-> op, out |-> "", pc |-> "load",
                             with |-> [i |-> 1, data |-> <<>>,
                                       read |-> getStorage(e, StorageKeys[1])]]),
        !.microtasks = Append(@, Resume(Len(e.procs) + 1, "ok"))]

\* init / loadFromStorage resumed after the promise it awaits settled
resumeLoad(e, p, res) ==
    LET w == e.procs[p].with
        data == MapSet(w.data, StorageKeys[w.i], w.read)
    IN  CASE e.procs[p].pc = "load" /\ w.i < Len(StorageKeys) ->
                \* storageData[key] = the item; the next key is read
                [e EXCEPT
                    !.procs[p].with = [i |-> w.i + 1, data |-> data,
                                       read |-> getStorage(e, StorageKeys[w.i + 1])],
                    !.microtasks = Append(@, Resume(p, "ok"))]
          [] e.procs[p].pc = "load" ->
                setState([e EXCEPT !.procs[p].pc = "await",
                                   !.procs[p].with = [w EXCEPT !.data = data]],
                         Load(data), p)
          [] e.procs[p].pc = "await" /\ e.procs[p].op = "init" ->
                \* resolved, or rejected and caught: loadFromStorage returns to init
                [e EXCEPT !.procs[p].pc = "return",
                          !.microtasks = Append(@, Resume(p, "ok"))]
          [] OTHER ->
                \* init: setupStorageSync(); setupConnectivityMonitoring()
                [e EXCEPT !.procs[p].pc = "done", !.procs[p].out = "resolved"]

-----------------------------------------------------------------------------
(* Subscribers *)

\* What a registered callback does when called.  handleOnlineStatus is the
\* application's subscriber on 'online'; thrower throws; resubmitter calls
\* setState; the others only look.
Callbacks == {"observer1", "observer2", "thrower", "handleOnlineStatus", "resubmitter"}

\* What resubmitter passes to setState
Resubmitted == Whole(Value([likedVideos |-> SetOf({"9"})]))

\* callback(arg1, arg2, arg3) inside the try of notifySubscribers, for setState call n
\* seen: what the callback finds when it reads the state accessor
Invoke(e, inv) ==
    LET e1 == [e EXCEPT !.notifyLog = Append(@, [seen |-> e.state] @@ inv)]
    IN  CASE inv.cb = "handleOnlineStatus" /\ inv.key = "online" /\ inv.new = Bool(TRUE) ->
                syncPendingActions(e1)
          [] inv.cb = "resubmitter" -> setState(e1, Resubmitted, 0)
          [] OTHER -> e1

RECURSIVE InvokeAll(_, _)
InvokeAll(e, invs) ==
    IF invs = <<>> THEN e ELSE InvokeAll(Invoke(e, Head(invs)), Tail(invs))

\* The callbacks registered under key, in insertion order
SubscribersOf(registry, key) ==
    IF key \in DOMAIN registry THEN registry[key] ELSE <<>>

Throws(cb) == cb = "thrower"

\* The calls the changedKeys.forEach of notifySubscribers makes, in order
RECURSIVE KeyedCalls(_, _, _, _, _)
KeyedCalls(registry, keys, previousState, currentState, n) ==
    IF keys = <<>> THEN <<>>
    ELSE LET key == Head(keys)
             cbs == SubscribersOf(registry, key)
         IN  [i \in 1..Len(cbs) |->
                [cb |-> cbs[i], changed |-> <<>>, key |-> key,
                 new |-> Get(currentState, key), prev |-> Get(previousState, key),
                 sub |-> n, threw |-> Throws(cbs[i])]]
             \o KeyedCalls(registry, Tail(keys), previousState, currentState, n)

\* GlobalCalls with the '*' subscribers skipped when no field changed
GlobalCalls_OnlyWhenChanged(registry, changedKeys, previousState, currentState, n) ==
    LET cbs == IF changedKeys = <<>> THEN <<>> ELSE SubscribersOf(registry, "*")
    IN  [i \in 1..Len(cbs) |->
            [cb |-> cbs[i], changed |-> changedKeys, key |-> "*",
             new |-> currentState, prev |-> previousState,
             sub |-> n, threw |-> Throws(cbs[i])]]

\* The calls made for the subscribers of '*'
GlobalCalls(registry, changedKeys, previousState, currentState, n) ==
    LET cbs == SubscribersOf(registry, "*")
    IN  [i \in 1..Len(cbs) |->
            [cb |-> cbs[i], changed |-> changedKeys, key |-> "*",
             new |-> currentState, prev |-> previousState,
             sub |-> n, threw |-> Throws(cbs[i])]]

RECURSIVE UpToFirstThrow(_)
UpToFirstThrow(calls) ==
    IF calls = <<>> THEN <<>>
    ELSE IF Head(calls).threw THEN <<Head(calls)>>
    ELSE <<Head(calls)>> \o UpToFirstThrow(Tail(calls))

\* NotifyCalls without the try/catch around each callback: the first throw
\* ends the notification
NotifyCalls_NoCatch(registry, previousState, currentState, n) ==
    LET changedKeys == getChangedKeys(previousState, currentState)
    IN  UpToFirstThrow(
            KeyedCalls(registry, changedKeys, previousState, currentState, n)
            \o GlobalCalls(registry, changedKeys, previousState, currentState, n))

\* NotifyCalls with the '*' subscribers called before the keyed ones
NotifyCalls_GlobalFirst(registry, previousState, currentState, n) ==
    LET changedKeys == getChangedKeys(previousState, currentState)
    IN  GlobalCalls(registry, changedKeys, previousState, currentState, n)
        \o KeyedCalls(registry, changedKeys, previousState, currentState, n)

\* All calls of notifySubscribers(previousState, currentState), in order
NotifyCalls(registry, previousState, currentState, n) ==
    LET changedKeys == getChangedKeys(previousState, currentState)
    IN  KeyedCalls(registry, changedKeys, previousState, currentState, n)
        \o GlobalCalls(registry, changedKeys, previousState, currentState, n)

\* notifySubscribers run while this._state still holds the previous snapshot
notifySubscribers_BeforePublish(e, previousState, currentState, n) ==
    [InvokeAll([e EXCEPT !.state = previousState],
               NotifyCalls(e.subscribers, previousState, currentState, n))
        EXCEPT !.state = e.state]

\* notifySubscribers(previousState, currentState) within setState call n
notifySubscribers(e, previousState, currentState, n) ==
    InvokeAll(e, NotifyCalls(e.subscribers, previousState, currentState, n))

\* subscribe(key, callback): a Set keeps one copy of a callback; the closure it
\* returns holds key and callback
subscribe(e, key, cb) ==
    LET old == SubscribersOf(e.subscribers, key)
    IN  [e EXCEPT !.subscribers =
            MapSet(@, key, IF cb \in Range(old) THEN old ELSE Append(old, cb)),
                  !.unsubscribes = @ \cup {<<key, cb>>}]

\* unsubscribe with the key entry kept when its last callback is removed
unsubscribe_KeepEmptyKey(e, key, cb) ==
    IF key \notin DOMAIN e.subscribers THEN e
    ELSE [e EXCEPT !.subscribers =
            MapSet(@, key, SelectSeqBy(@[key], Range(@[key]) \ {cb}))]

\* The function subscribe(key, callback) returned, called
unsubscribe(e, key, cb) ==
    IF key \notin DOMAIN e.subscribers THEN e
    ELSE LET rest == SelectSeqBy(e.subscribers[key], Range(e.subscribers[key]) \ {cb})
         IN  [e EXCEPT !.subscribers =
                IF rest = <<>> THEN MapDelete(@, {key}) ELSE MapSet(@, key, rest)]

-----------------------------------------------------------------------------
(* The deferred body of setState *)

maxHistoryLength == 50

\* PushHistory with the new entry given up when the history is full
PushHistory_DropNewest(h, entry) ==
    IF Len(h) >= maxHistoryLength THEN h ELSE Append(h, entry)

\* history.push(entry); if (history.length > maxHistoryLength) history.shift()
PushHistory(h, entry) ==
    LET h1 == Append(h, entry)
    IN  IF Len(h1) > maxHistoryLength THEN Tail(h1) ELSE h1

\* StateAfterBody with the assignment made before the validation
StateAfterBody_AssignFirst(previousState, r) ==
    IF r.ok THEN Spread(previousState, r.obj) ELSE previousState

\* The snapshot after the try block: the merge when newState passes validation,
\* the snapshot as it was when the block throws
StateAfterBody(previousState, r) ==
    IF r.ok /\ validateState(r.obj) THEN Spread(previousState, r.obj) ELSE previousState

\* The promise of setState call n settles: its awaiter continues in a microtask
Settle(e, n, status) ==
    [e EXCEPT
        !.subs[n].status = status,
        !.microtasks =
            IF e.subs[n].awaiter # 0
            THEN Append(@, Resume(e.subs[n].awaiter,
                                  IF status = "committed" THEN "ok" ELSE "err"))
            ELSE @]

\* The callback with isMutating cleared as the last statement of the try block
setStateBody_ClearInTry(e, n) ==
    LET r == RunUpdater(e.subs[n].updater, e.state, n)
        committed == r.ok /\ validateState(r.obj)
        previousState == e.state
        e1 == [e EXCEPT
                 !.state = StateAfterBody(previousState, r),
                 !.history = IF committed
                             THEN PushHistory(@, [timestamp |-> e.now,
                                     previous |-> previousState,
                                     current |-> StateAfterBody(previousState, r)])
                             ELSE @]
        e2 == IF committed
              THEN saveToStorageDebounced(
                       notifySubscribers(e1, previousState, e1.state, n))
              ELSE e1
        e3 == Settle(e2, n, IF committed THEN "committed" ELSE "rejected")
    IN  [e3 EXCEPT !.isMutating = IF committed THEN FALSE ELSE @]

\* The callback setState passes to queueMicrotask, for setState call n
setStateBody(e, n) ==
    LET r == RunUpdater(e.subs[n].updater, e.state, n)
        committed == r.ok /\ validateState(r.obj)
        previousState == e.state
        e1 == [e EXCEPT
                 !.state = StateAfterBody(previousState, r),
                 !.history = IF committed
                             THEN PushHistory(@, [timestamp |-> e.now,
                                     previous |-> previousState,
                                     current |-> StateAfterBody(previousState, r)])
                             ELSE @]
        e2 == IF committed
              THEN saveToStorageDebounced(
                       notifySubscribers(e1, previousState, e1.state, n))
              ELSE e1
        e3 == Settle(e2, n, IF committed THEN "committed" ELSE "rejected")
    IN  [e3 EXCEPT !.isMutating = FALSE]

-----------------------------------------------------------------------------
(* Optimistic toggles: likeVideo / saveVideo *)

ToggleField(op) == IF op = "likeVideo" THEN "likedVideos" ELSE "savedVideos"
ToggleType(op) == IF op = "likeVideo" THEN "like" ELSE "save"

\* the payload queueAction gets: { videoId, liked } or { videoId, saved }
ToggleData(op, videoId, flag) ==
    IF op = "likeVideo" THEN [videoId |-> videoId, liked |-> flag]
    ELSE [videoId |-> videoId, saved |-> flag]

\* likeVideo(videoId) / saveVideo(videoId), up to `await this.setState(...)`
toggle(e, op, videoId) ==
    LET p == Len(e.procs) + 1
        previous == videoId \in e.state[ToggleField(op)].v
        e1 == [e EXCEPT !.procs = Append(@,
                  [op |-> op, out |-> "", pc |-> "await1",
                   with |-> [videoId |-> videoId, previous |-> previous]])]
    IN  setState(e1, Member(ToggleField(op), videoId, ~previous), p)

\* the end of the try block: likeVideo invalidates `video_${videoId}`, then both return
toggleReturn(e, p) ==
    LET op == e.procs[p].op
        e1 == IF op = "likeVideo"
              THEN invalidateCache(e, <<"video_", e.procs[p].with.videoId>>)
              ELSE e
    IN  [e1 EXCEPT !.procs[p].pc = "done", !.procs[p].out = "resolved"]

\* likeVideo / saveVideo resumed after the promise it awaits settled
resumeToggle(e, p, res) ==
    LET op == e.procs[p].op
        w == e.procs[p].with
    IN  CASE e.procs[p].pc = "await1" /\ res # "ok" ->
                \* the first setState rejected, outside the try: the error propagates
                [e EXCEPT !.procs[p].pc = "done", !.procs[p].out = "rejected:invalid"]
          [] e.procs[p].pc = "await1" /\ res = "ok" ->
                IF e.state.online.v
                THEN apiRequest([e EXCEPT !.procs[p].pc = "remote"], p, ToggleType(op),
                                ToggleData(op, w.videoId, ~w.previous))
                ELSE toggleReturn(
                        queueAction(e, ToggleType(op),
                                    ToggleData(op, w.videoId, ~w.previous)), p)
          [] e.procs[p].pc = "remote" /\ res = "ok" -> toggleReturn(e, p)
          [] e.procs[p].pc = "remote" /\ res # "ok" ->
                \* catch: await the compensating setState
                setState([e EXCEPT !.procs[p].pc = "await2"],
                         Member(ToggleField(op), w.videoId, w.previous), p)
          [] e.procs[p].pc = "await2" /\ res = "ok" ->
                \* throw error
                [e EXCEPT !.procs[p].pc = "done", !.procs[p].out = "rejected:remote"]
          [] OTHER ->
                \* the compensating setState rejected inside the catch
                [e EXCEPT !.procs[p].pc = "done", !.procs[p].out = "rejected:invalid"]

-----------------------------------------------------------------------------
(* Cache *)

cacheTimeout == 30000

\* options.ttl || this.cacheTimeout
EffectiveTtl(ttl) == IF ttl = 0 THEN cacheTimeout ELSE ttl

CacheKey(key) == <<"cache_">> \o key

\* getWithCache(key, fetcher, {ttl}), up to `await fetcher()`
getWithCache(e, key, ttl) ==
    LET p == Len(e.procs) + 1
        cache == e.state.cache.v
        hit == /\ CacheKey(key) \in DOMAIN cache
               /\ e.now - cache[CacheKey(key)].timestamp < EffectiveTtl(ttl)
        proc == [op |-> "getWithCache", out |-> "", pc |-> "remote",
                 with |-> [key |-> key, ttl |-> ttl, now |-> e.now, data |-> 0]]
    IN  IF hit
        THEN [e EXCEPT !.procs = Append(@,
                [proc EXCEPT !.pc = "done", !.out = "resolved",
                             !.with.data = cache[CacheKey(key)].data])]
        ELSE apiRequest([e EXCEPT !.procs = Append(@, proc)], p, "fetch", key)

\* The request proc p waits for
RequestOf(e, p) ==
    CHOOSE r \in 1..Len(e.requests) :
        /\ e.requests[r].proc = p
        /\ \A r2 \in 1..Len(e.requests) : e.requests[r2].proc = p => r2 <= r

\* getWithCache resumed after `await fetcher()`: the fetcher's data is the
\* number of the request that produced it
resumeGetWithCache(e, p, res) ==
    LET w == e.procs[p].with
        data == RequestOf(e, p)
    IN  IF res = "ok"
        THEN LET e1 == setState(e, CacheSet(CacheKey(w.key), data, w.now), 0)
             IN  [e1 EXCEPT !.procs[p].pc = "done", !.procs[p].out = "resolved",
                            !.procs[p].with.data = data]
        ELSE [e EXCEPT !.procs[p].pc = "done", !.procs[p].out = "rejected:remote"]

\* getVideos(forceRefresh): invalidateCache('videos') when forceRefresh, then
\* getWithCache('videos', fetcher, { ttl: 60000 }), up to `await fetcher()`
getVideos(e, forceRefresh) ==
    LET p == Len(e.procs) + 1
        e1 == IF forceRefresh THEN invalidateCache(e, <<"videos">>) ELSE e
        e2 == getWithCache(e1, <<"videos">>, 60000)
    IN  [e2 EXCEPT !.procs[p].op = "getVideos",
                   !.procs[p].with = [forceRefresh |-> forceRefresh] @@ @]

\* getDemoVideos(), as the data of a cache entry
DemoVideos == 0

\* getVideos resumed after `await fetcher()`: the fetcher catches a failed
\* request and returns the demo videos
resumeGetVideos(e, p, res) ==
    LET w == e.procs[p].with
        data == IF res = "ok" THEN RequestOf(e, p) ELSE DemoVideos
        e1 == setState(e, CacheSet(CacheKey(w.key), data, w.now), 0)
    IN  [e1 EXCEPT !.procs[p].pc = "done", !.procs[p].out = "resolved",
                   !.procs[p].with.data = data]

\* A continuation microtask
resume(e, p, res) ==
    CASE e.procs[p].op = "syncPendingActions" -> resumeSync(e, p, res)
      [] e.procs[p].op \in {"init", "loadFromStorage"} -> resumeLoad(e, p, res)
      [] e.procs[p].op = "getWithCache" -> resumeGetWithCache(e, p, res)
      [] e.procs[p].op = "getVideos" -> resumeGetVideos(e, p, res)
      [] e.procs[p].op = "saveToStorageDebounced" -> resumeSave(e, p, res)
      [] OTHER -> resumeToggle(e, p, res)

-----------------------------------------------------------------------------
(* Actions *)

Bounded(e) ==
    /\ Len(e.subs) <= MaxSubs
    /\ Len(e.procs) <= MaxProcs

Step(e) == Bounded(e) /\ Becomes(e)

\* The event loop runs the oldest microtask: a deferred setState body
RunBody ==
    /\ microtasks # <<>>
    /\ Head(microtasks).kind = "body"
    /\ Step(setStateBody([Env EXCEPT !.microtasks = Tail(@)], Head(microtasks).id))

\* The event loop runs the oldest microtask: the continuation of an async method
RunResume ==
    /\ microtasks # <<>>
    /\ Head(microtasks).kind = "resume"
    /\ Step(resume([Env EXCEPT !.microtasks = Tail(@)],
                   Head(microtasks).id, Head(microtasks).res))

\* A response arrives for request r (a macrotask: the microtask queue is empty)
Respond(r, ok) ==
    /\ microtasks = <<>>
    /\ r \in 1..Len(requests)
    /\ requests[r].status = "inflight"
    /\ Step([Env EXCEPT
                !.requests[r].status = IF ok THEN "ok" ELSE "failed",
                !.microtasks = Append(@, Resume(requests[r].proc,
                                                IF ok THEN "ok" ELSE "err"))])

\* The number of (key, callback) registrations
Registered(registry) ==
    Cardinality({<<k, i>> \in (DOMAIN registry) \X (1..Cardinality(Callbacks)) :
                    i <= Len(registry[k])})

\* Caller code runs between two jobs (in a task of its own, in the stack that
\* made the previous call, or in a microtask it queued) and calls the engine
CallSetState(u) ==
    /\ Len(subs) < MaxSubs
    /\ Step(setState(Env, u, 0))

CallSubscribe(key, cb) ==
    /\ Registered(subscribers) < MaxSubscribes
    /\ cb \notin Range(SubscribersOf(subscribers, key))
    /\ Step(subscribe(Env, key, cb))

\* A caller calls an unsubscribe function it holds
CallUnsubscribe(key, cb) ==
    /\ <<key, cb>> \in unsubscribes
    /\ Step(unsubscribe(Env, key, cb))

CallToggle(op, videoId) ==
    /\ Len(procs) < MaxProcs
    /\ Step(toggle(Env, op, videoId))

CallGetWithCache(key, ttl) ==
    /\ Len(procs) < MaxProcs
    /\ Step(getWithCache(Env, key, ttl))

CallGetVideos(forceRefresh) ==
    /\ Len(procs) < MaxProcs
    /\ Step(getVideos(Env, forceRefresh))

CallInvalidateCache(pattern) ==
    /\ Len(subs) < MaxSubs
    /\ Step(invalidateCache(Env, pattern))

CallSyncPendingActions ==
    /\ Len(procs) < MaxProcs
    /\ Step(syncPendingActions(Env))

\* window 'online': setState({ online: true }); syncPendingActions()
OnlineEvent ==
    /\ microtasks = <<>>
    /\ Step(syncPendingActions(setState(Env, Value([online |-> Bool(TRUE)]), 0)))

\* window 'offline': setState({ online: false })
OfflineEvent ==
    /\ microtasks = <<>>
    /\ Step(setState(Env, Value([online |-> Bool(FALSE)]), 0))

CallQueueAction(type, data) ==
    /\ Len(subs) < MaxSubs
    /\ Step(queueAction(Env, type, data))

\* The application calls init()
CallInit ==
    /\ Len(procs) < MaxProcs
    /\ Step(loadFromStorage(Env, "init"))

\* window 'storage', once init has installed the listener: another tab wrote
\* the item socialflow_<key>
StorageEvent(key, value) ==
    /\ microtasks = <<>>
    /\ Len(procs) < MaxProcs
    /\ \E p \in 1..Len(procs) : procs[p].op = "init" /\ procs[p].pc = "done"
    /\ Step(loadFromStorage([Env EXCEPT !.storage = MapSet(@, key, value)],
                            "loadFromStorage"))

\* A caller calls getChangedKeys(this.state, current)
CallGetChangedKeys(current) ==
    /\ returned = <<>>
    /\ Step([Env EXCEPT !.returned =
                [method |-> "getChangedKeys", previous |-> state, current |-> current,
                 result |-> getChangedKeys(state, current)]])

\* cleanup(): this.saveToStorageDebounced.cancel?.(); this.subscribers.clear()
\* The function debounce() returns has no property `cancel`, so the optional
\* call is skipped and the timeout stays as it is.
cleanup(e) ==
    [e EXCEPT !.subscribers = <<>>,
              !.returned = [method |-> "cleanup"]]

\* window 'beforeunload': window.app.cleanup(), which calls
\* this.stateManager.cleanup()
BeforeUnload ==
    /\ microtasks = <<>>
    /\ returned = <<>>
    /\ Step(cleanup(Env))

\* The timeout armed by saveToStorageDebounced expires (a macrotask)
TimerFire ==
    /\ microtasks = <<>>
    /\ saveTimer
    /\ Len(procs) < MaxProcs
    /\ Step(saveLater(Env))

\* localStorage runs out of quota, or gets room again
QuotaChange(full) ==
    /\ storageFull # full
    /\ Step([Env EXCEPT !.storageFull = full])

\* time passes
Tick ==
    /\ now < MaxNow
    /\ now' = now + 1
    /\ UNCHANGED <<state, history, isMutating, subscribers, microtasks, subs, procs,
                   requests, storage, saveTimer, notifyLog, unsubscribes, returned,
                   storageFull, auth, errorBoundary, player>>

-----------------------------------------------------------------------------
(* The scheduler and the subscribers: callers submit updaters and subscribe *)

Init ==
    /\ state \in {InitialState(TRUE), InitialState(FALSE)}
    /\ history = <<>>
    /\ isMutating = FALSE
    /\ subscribers = <<>>
    /\ microtasks = <<>>
    /\ subs = <<>>
    /\ procs = <<>>
    /\ requests = <<>>
    /\ storage = <<>>
    /\ saveTimer = FALSE
    /\ now = 0
    /\ notifyLog = <<>>
    /\ unsubscribes = {}
    /\ returned = <<>>
    /\ storageFull = FALSE
    /\ auth = AuthConstructed
    /\ errorBoundary = BoundaryConstructed
    /\ player = PlayerConstructed(<<>>)

\* What the callers of the scheduler scenario pass to setState
CallerUpdaters ==
    { Value([online |-> Bool(TRUE)]),
      Member("likedVideos", "1", TRUE),
      Whole(Value([online |-> Bool(TRUE)])),
      Whole(Member("likedVideos", "1", TRUE)),
      Whole(Value([online |-> Str("yes")])),
      ReturnsNull }

Next ==
    \/ \E u \in CallerUpdaters : CallSetState(u)
    \/ RunBody

Spec == Init /\ [][Next]_vars

-----------------------------------------------------------------------------
(* Notification: the callers subscribe while they set up (as SocialFlowApp  *)
(* does in setupEventListeners), then submit updaters                      *)

NotifyUpdaters ==
    { Whole(Value([online |-> Bool(TRUE)])),
      Whole(Member("likedVideos", "1", TRUE)),
      Whole(Value([online |-> Bool(FALSE), likedVideos |-> SetOf({"2"})])),
      Member("likedVideos", "1", TRUE) }

NotifyKeys == {"online", "likedVideos", "*"}
NotifyCallbacks == {"observer1", "thrower"}

NextNotify ==
    \/ \E u \in NotifyUpdaters : Len(subs) < MaxCommits /\ CallSetState(u)
    \/ \E key \in NotifyKeys, cb \in NotifyCallbacks :
          subs = <<>> /\ CallSubscribe(key, cb)
    \/ RunBody

SpecNotify == Init /\ [][NextNotify]_vars

-----------------------------------------------------------------------------
(* The registry: callers subscribe and call the unsubscribe functions they  *)
(* hold, any number of times                                               *)

NextRegistry ==
    \/ \E key \in NotifyKeys, cb \in NotifyCallbacks : CallSubscribe(key, cb)
    \/ \E key \in NotifyKeys, cb \in NotifyCallbacks : CallUnsubscribe(key, cb)

SpecRegistry == Init /\ [][NextRegistry]_vars

-----------------------------------------------------------------------------
(* Change detection: getChangedKeys on two snapshots whose fields hold the  *)
(* values validateState admits                                             *)

\* Two cache entry objects with the same content
EntryA == [data |-> 7, timestamp |-> 0, ref |-> 1]
EntryB == [data |-> 7, timestamp |-> 0, ref |-> 2]

DiffLiked == { SetOf({}), SetOf({"1"}), SetOf({"2"}), SetOf({"1", "2"}), MapOf(<<>>) }
DiffIndexes ==
    { EmptyMap,
      MapOf([k \in {"1"} |-> Num(0)]),
      MapOf([k \in {"1"} |-> Num(1)]),
      MapOf([k \in {"1", "2"} |-> Num(0)]),
      MapOf([k \in {"1"} |-> Undefined]),
      MapOf([k \in {"2"} |-> Undefined]) }
DiffCache ==
    { EmptyMap,
      MapOf([k \in {CacheKey(<<"videos">>)} |-> EntryA]),
      MapOf([k \in {CacheKey(<<"videos">>)} |-> EntryB]) }
DiffDraft == { Undefined, Str("a"), Str("b") }

\* The snapshots change detection is given: the constructor's, with three
\* fields replaced and the field 'draft' added or not
DiffSnapshots ==
    { [k \in DOMAIN InitialState(TRUE) \cup (IF d = Undefined THEN {} ELSE {"draft"}) |->
          CASE k = "likedVideos" -> l
            [] k = "currentMediaIndexes" -> i
            [] k = "cache" -> c
            [] k = "draft" -> d
            [] OTHER -> InitialState(TRUE)[k]] :
      l \in DiffLiked, i \in DiffIndexes, c \in DiffCache, d \in DiffDraft }

InitDiff ==
    /\ state \in DiffSnapshots
    /\ history = <<>>
    /\ isMutating = FALSE
    /\ subscribers = <<>>
    /\ microtasks = <<>>
    /\ subs = <<>>
    /\ procs = <<>>
    /\ requests = <<>>
    /\ storage = <<>>
    /\ saveTimer = FALSE
    /\ now = 0
    /\ notifyLog = <<>>
    /\ unsubscribes = {}
    /\ returned = <<>>
    /\ storageFull = FALSE
    /\ auth = AuthConstructed
    /\ errorBoundary = BoundaryConstructed
    /\ player = PlayerConstructed(<<>>)

NextDiff == \E current \in DiffSnapshots : CallGetChangedKeys(current)

SpecDiff == InitDiff /\ [][NextDiff]_vars

-----------------------------------------------------------------------------
(* Re-entrant callers: a subscriber of 'online' calls setState from inside   *)
(* the notification, a subscriber of '*' reads the state accessor          *)

InitReentry ==
    /\ state \in {InitialState(TRUE), InitialState(FALSE)}
    /\ history = <<>>
    /\ isMutating = FALSE
    /\ subscribers = [key \in {"online", "*"} |->
                        IF key = "online" THEN <<"resubmitter">> ELSE <<"observer1">>]
    /\ microtasks = <<>>
    /\ subs = <<>>
    /\ procs = <<>>
    /\ requests = <<>>
    /\ storage = <<>>
    /\ saveTimer = FALSE
    /\ now = 0
    /\ notifyLog = <<>>
    /\ unsubscribes = {<<"online", "resubmitter">>, <<"*", "observer1">>}
    /\ returned = <<>>
    /\ storageFull = FALSE
    /\ auth = AuthConstructed
    /\ errorBoundary = BoundaryConstructed
    /\ player = PlayerConstructed(<<>>)

NextReentry ==
    \/ \E u \in NotifyUpdaters : CallSetState(u)
    \/ RunBody

SpecReentry == InitReentry /\ [][NextReentry]_vars

-----------------------------------------------------------------------------
(* Optimistic toggles: callers like and save videos while the remote calls   *)
(* succeed or fail; another caller submits an update of its own             *)

ToggleUpdaters == { Whole(Value([online |-> Bool(TRUE)])) }

VideoIds == {"1"}

NextToggle ==
    \/ \E op \in {"likeVideo", "saveVideo"}, id \in VideoIds : CallToggle(op, id)
    \/ \E u \in ToggleUpdaters : CallSetState(u)
    \/ \E r \in 1..Len(requests), ok \in BOOLEAN : Respond(r, ok)
    \/ RunBody
    \/ RunResume

SpecToggle == Init /\ [][NextToggle]_vars

-----------------------------------------------------------------------------
(* The offline queue: callers enqueue actions, time passes                  *)

QueueTypes == {"like", "save"}

NextQueue ==
    \/ \E type \in QueueTypes, id \in VideoIds :
          CallQueueAction(type, ToggleData(IF type = "like" THEN "likeVideo" ELSE "saveVideo",
                                           id, TRUE))
    \/ microtasks = <<>> /\ Tick
    \/ RunBody

SpecQueue == Init /\ [][NextQueue]_vars

-----------------------------------------------------------------------------
(* Startup: the application calls init() with records persisted by an       *)
(* earlier session, or none; another tab writes a record                   *)

StoredUser == Obj([id |-> "u1"])
StoredLiked == Arr(<<"1", "2">>)
StoredSaved == Arr(<<"2">>)
StoredIndexes == Obj([k \in {"1"} |-> Num(2)])
StoredUi == Obj([theme |-> "light"])

\* The pending list queueAction persisted in an earlier session
StoredPending ==
    Arr(<<[type |-> "like", data |-> [videoId |-> "1", liked |-> TRUE],
           timestamp |-> 0, id |-> 1],
          [type |-> "save", data |-> [videoId |-> "2", saved |-> TRUE],
           timestamp |-> 0, id |-> 2]>>)

\* All records of an earlier session
Stored ==
    [k \in Range(StorageKeys) \cup {"pendingActions"} |->
        CASE k = "user" -> StoredUser
          [] k = "pendingActions" -> StoredPending
          [] k = "likedVideos" -> StoredLiked
          [] k = "savedVideos" -> StoredSaved
          [] k = "currentMediaIndexes" -> StoredIndexes
          [] k = "ui" -> StoredUi]

InitStored ==
    /\ state \in {InitialState(TRUE), InitialState(FALSE)}
    /\ history = <<>>
    /\ isMutating = FALSE
    /\ subscribers = <<>>
    /\ microtasks = <<>>
    /\ subs = <<>>
    /\ procs = <<>>
    /\ requests = <<>>
    /\ storage \in {[k \in K |-> Stored[k]] : K \in SUBSET DOMAIN Stored}
    /\ saveTimer = FALSE
    /\ now = 0
    /\ notifyLog = <<>>
    /\ unsubscribes = {}
    /\ returned = <<>>
    /\ storageFull = FALSE
    /\ auth = AuthConstructed
    /\ errorBoundary = BoundaryConstructed
    /\ player = PlayerConstructed(<<>>)

NextStartup ==
    \/ CallInit
    \/ StorageEvent("likedVideos", Arr(<<"3">>))
    \/ RunBody
    \/ RunResume

SpecStartup == InitStored /\ [][NextStartup]_vars

-----------------------------------------------------------------------------
(* A long run: one caller likes video 1, then video 2, ..., and awaits each  *)
(* promise before its next call, past the length the history keeps; now    *)
(* and then it passes an updater that returns null                         *)

\* What the caller passes to like its k-th video
LongRunUpdater(k) == Whole(Member("likedVideos", k, TRUE))

\* The number of calls so far whose updater returns null
Rejections == Cardinality({n \in 1..Len(subs) : subs[n].updater = ReturnsNull})

CallSetStateLongRun ==
    /\ microtasks = <<>>
    /\ Len(subs) < MaxLongRun + Rejections
    /\ \/ Becomes(setState(Env, LongRunUpdater(Cardinality(state.likedVideos.v) + 1), 0))
       \/ /\ Rejections < MaxRejections
          /\ Becomes(setState(Env, ReturnsNull, 0))

RunBodyLongRun ==
    /\ microtasks # <<>>
    /\ Head(microtasks).kind = "body"
    /\ Becomes(setStateBody([Env EXCEPT !.microtasks = Tail(@)], Head(microtasks).id))

NextLongRun ==
    \/ CallSetStateLongRun
    \/ RunBodyLongRun

SpecLongRun == Init /\ [][NextLongRun]_vars

-----------------------------------------------------------------------------
(* Repeated updates: callers submit the same updaters again, each of them   *)
(* idempotent on the field it sets; a callback is subscribed to each field *)

TwiceUpdaters ==
    { Whole(Value([online |-> Bool(TRUE)])),
      Whole(Member("likedVideos", "1", TRUE)),
      Whole(Value([ui |-> Obj([theme |-> "light"])])),
      Whole(CacheSet(CacheKey(<<"videos">>), 7, 0)) }

InitTwice ==
    /\ state \in {InitialState(TRUE), InitialState(FALSE)}
    /\ history = <<>>
    /\ isMutating = FALSE
    /\ subscribers = [key \in {"online", "likedVideos", "ui", "cache"} |-> <<"observer1">>]
    /\ microtasks = <<>>
    /\ subs = <<>>
    /\ procs = <<>>
    /\ requests = <<>>
    /\ storage = <<>>
    /\ saveTimer = FALSE
    /\ now = 0
    /\ notifyLog = <<>>
    /\ unsubscribes = {<<key, "observer1">> : key \in {"online", "likedVideos", "ui", "cache"}}
    /\ returned = <<>>
    /\ storageFull = FALSE
    /\ auth = AuthConstructed
    /\ errorBoundary = BoundaryConstructed
    /\ player = PlayerConstructed(<<>>)

NextTwice ==
    \/ \E u \in TwiceUpdaters : CallSetState(u)
    \/ RunBody

SpecTwice == InitTwice /\ [][NextTwice]_vars

-----------------------------------------------------------------------------
(* Persistence: callers commit updates, the debounce timeout expires, the   *)
(* storage runs out of quota and gets room again                           *)

PersistUpdaters ==
    { Whole(Member("likedVideos", "1", TRUE)),
      Whole(Value([ui |-> Obj([theme |-> "light"])])) }

NextPersist ==
    \/ \E u \in PersistUpdaters : Len(subs) < MaxCommits /\ CallSetState(u)
    \/ TimerFire
    \/ \E full \in BOOLEAN : QuotaChange(full)
    \/ RunBody
    \/ RunResume

SpecPersist == Init /\ [][NextPersist]_vars

-----------------------------------------------------------------------------
(* Shutdown: callers subscribe and commit updates until the page unloads   *)
(* and the application calls cleanup(); the debounce timeout expires       *)

NextShutdown ==
    \/ \E u \in PersistUpdaters : returned = <<>> /\ CallSetState(u)
    \/ \E cb \in NotifyCallbacks :
          subs = <<>> /\ returned = <<>> /\ CallSubscribe("likedVideos", cb)
    \/ BeforeUnload
    \/ TimerFire
    \/ RunBody
    \/ RunResume

SpecShutdown == Init /\ [][NextShutdown]_vars

-----------------------------------------------------------------------------
(* Settling: callers subscribe, then submit updaters whose bodies end in    *)
(* every way: a commit, a commit with a subscriber that throws, a failed   *)
(* validation, an updater that throws                                      *)

SettleUpdaters ==
    { Whole(Member("likedVideos", "1", TRUE)),
      Whole(Value([online |-> Str("yes")])),
      ThrowingUpdater }

NextSettle ==
    \/ \E u \in SettleUpdaters : CallSetState(u)
    \/ \E cb \in NotifyCallbacks : subs = <<>> /\ CallSubscribe("likedVideos", cb)
    \/ RunBody

SpecSettle == Init /\ [][NextSettle]_vars

-----------------------------------------------------------------------------
(* Debounce: callers commit updates in bursts, the debounce timeout expires *)
(* when its delay has passed since the last commit; no write fails         *)

NextDebounce ==
    \/ \E u \in PersistUpdaters : CallSetState(u)
    \/ TimerFire
    \/ RunBody
    \/ RunResume

SpecDebounce == Init /\ [][NextDebounce]_vars

-----------------------------------------------------------------------------
(* Failures: callers submit valid updaters and updaters whose result has a  *)
(* wrongly typed field, also while a submission is in flight; a producer's  *)
(* remote call fails or not; durable writes fail or not                    *)

FailureUpdaters ==
    { Whole(Member("likedVideos", "1", TRUE)),
      Whole(Value([online |-> Str("yes")])) }

NextFailures ==
    \/ \E u \in FailureUpdaters : Len(subs) < MaxCommits + 1 /\ CallSetState(u)
    \/ CallGetWithCache(<<"videos">>, 2)
    \/ \E r \in 1..Len(requests), ok \in BOOLEAN : Respond(r, ok)
    \/ TimerFire
    \/ \E full \in BOOLEAN : microtasks = <<>> /\ QuotaChange(full)
    \/ RunBody
    \/ RunResume

SpecFailures == Init /\ [][NextFailures]_vars

-----------------------------------------------------------------------------
(* Submissions in flight: callers submit updaters and toggle a like, also   *)
(* while a submission is in flight; a subscriber of 'online' calls setState *)
(* from inside the notification                                            *)

NextInFlight ==
    \/ \E u \in NotifyUpdaters : CallSetState(u)
    \/ \E id \in VideoIds : CallToggle("likeVideo", id)
    \/ \E r \in 1..Len(requests), ok \in BOOLEAN : Respond(r, ok)
    \/ RunBody
    \/ RunResume

SpecInFlight == InitReentry /\ [][NextInFlight]_vars

-----------------------------------------------------------------------------
(* Offline replay in the running application: SocialFlowApp has subscribed   *)
(* handleOnlineStatus to 'online'; a caller restores a pending list, the    *)
(* window reports connectivity changes, responses succeed or fail           *)

ActionA == [type |-> "like", data |-> [videoId |-> "1", liked |-> TRUE], timestamp |-> 0, id |-> 1]
ActionB == [type |-> "save", data |-> [videoId |-> "1", saved |-> TRUE], timestamp |-> 0, id |-> 2]
ActionC == [type |-> "like", data |-> [videoId |-> "2", liked |-> TRUE], timestamp |-> 0, id |-> 3]

ReplayUpdaters ==
    { Whole(Value([pendingActions |-> Arr(<<ActionA, ActionB, ActionC>>)])),
      Whole(Value([online |-> Bool(TRUE)])) }

\* The engine once SocialFlowApp.setupEventListeners has run
InitApp ==
    /\ state \in {InitialState(TRUE), InitialState(FALSE)}
    /\ history = <<>>
    /\ isMutating = FALSE
    /\ subscribers = [key \in {"online"} |-> <<"handleOnlineStatus">>]
    /\ microtasks = <<>>
    /\ subs = <<>>
    /\ procs = <<>>
    /\ requests = <<>>
    /\ storage = <<>>
    /\ saveTimer = FALSE
    /\ now = 0
    /\ notifyLog = <<>>
    /\ unsubscribes = {}
    /\ returned = <<>>
    /\ storageFull = FALSE
    /\ auth = AuthConstructed
    /\ errorBoundary = BoundaryConstructed
    /\ player = PlayerConstructed(<<>>)

NextReplay ==
    \/ \E u \in ReplayUpdaters : CallSetState(u)
    \/ OnlineEvent
    \/ OfflineEvent
    \/ CallSyncPendingActions
    \/ \E r \in 1..Len(requests), ok \in BOOLEAN : Respond(r, ok)
    \/ RunBody
    \/ RunResume

SpecReplay == InitApp /\ [][NextReplay]_vars

-----------------------------------------------------------------------------
(* Replay of a list that holds an action of a type processAction has no     *)
(* case for: a caller restores the list, callers enqueue such actions and   *)
(* start replays, responses succeed or fail                                *)

ActionD == [type |-> "share", data |-> [videoId |-> "1"], timestamp |-> 0, id |-> 4]

UnknownTypeUpdaters ==
    { Whole(Value([pendingActions |-> Arr(<<ActionA, ActionD>>)])) }

NextUnknownType ==
    \/ \E u \in UnknownTypeUpdaters : subs = <<>> /\ CallSetState(u)
    \/ CallQueueAction("share", [videoId |-> "2"])
    \/ CallSyncPendingActions
    \/ \E r \in 1..Len(requests), ok \in BOOLEAN : Respond(r, ok)
    \/ RunBody
    \/ RunResume

SpecUnknownType == InitApp /\ [][NextUnknownType]_vars

-----------------------------------------------------------------------------
(* The cache: callers read through getWithCache and invalidate, a caller     *)
(* stores an entry with an updater of its own first, time passes between    *)
(* tasks                                                                   *)

CacheKeys == {<<"videos">>, <<"user">>}
CacheTtls == {2}
CachePatterns == {<<"videos">>}

CacheUpdaters == { Whole(CacheSet(CacheKey(<<"videos">>), 7, 0)) }

\* The number of invalidateCache calls so far
Invalidations == Cardinality({n \in 1..Len(subs) : subs[n].updater.op = "cacheDelete"})

NextCache ==
    \/ \E key \in CacheKeys, ttl \in CacheTtls : CallGetWithCache(key, ttl)
    \/ \E pattern \in CachePatterns :
          Invalidations < MaxInvalidations /\ CallInvalidateCache(pattern)
    \/ \E u \in CacheUpdaters : subs = <<>> /\ CallSetState(u)
    \/ \E r \in 1..Len(requests), ok \in BOOLEAN : Respond(r, ok)
    \/ microtasks = <<>> /\ Tick
    \/ RunBody
    \/ RunResume

SpecCache == Init /\ [][NextCache]_vars

-----------------------------------------------------------------------------
(* Videos: callers read the videos through getVideos, with and without     *)
(* forceRefresh, a caller stores a 'videos' entry with an updater of its   *)
(* own, time passes between tasks                                          *)

NextVideos ==
    \/ \E forceRefresh \in BOOLEAN : CallGetVideos(forceRefresh)
    \/ \E u \in CacheUpdaters : subs = <<>> /\ CallSetState(u)
    \/ \E r \in 1..Len(requests), ok \in BOOLEAN : Respond(r, ok)
    \/ microtasks = <<>> /\ Tick
    \/ RunBody
    \/ RunResume

SpecVideos == Init /\ [][NextVideos]_vars

-----------------------------------------------------------------------------
(* Time to live: a caller stores a cache entry with an updater of its own,  *)
(* callers read it through getWithCache with a ttl of their choice, zero    *)
(* included, as time passes                                                *)

TtlChoices == {0, 2}

NextTtl ==
    \/ \E ttl \in TtlChoices : CallGetWithCache(<<"videos">>, ttl)
    \/ \E u \in CacheUpdaters : subs = <<>> /\ CallSetState(u)
    \/ \E r \in 1..Len(requests), ok \in BOOLEAN : Respond(r, ok)
    \/ microtasks = <<>> /\ Tick
    \/ RunBody
    \/ RunResume

SpecTtl == Init /\ [][NextTtl]_vars

-----------------------------------------------------------------------------
(* Properties of the scheduler *)

\* The step runs the deferred body of setState call n
IsBodyStep(n) ==
    /\ microtasks # <<>>
    /\ Head(microtasks) = Body(n)
    /\ subs'[n].status # "queued"

\* What the updater of call n returns when run on the current snapshot
ResultOf(n) == RunUpdater(subs[n].updater, state, n)

\* Every field the object holds has a type the schema allows for it
WellTyped(obj) ==
    \A key \in (DOMAIN obj) \cap (DOMAIN schema) : TypeOf(obj[key]) \in schema[key]

Committed == {n \in 1..Len(subs) : subs[n].status = "committed"}

\* C1: every setState call runs its updater exactly once, in call order, and each
\* commit starts from the previous commit's result; no submission is lost.
\* Once the microtask queue is empty, no call is left unrun, and the history
\* is a chain.
C1_EverySubmissionRuns ==
    microtasks = <<>> =>
        /\ \A n \in 1..Len(subs) : subs[n].status \in {"committed", "rejected"}
        /\ Len(history) = Cardinality(Committed)
        /\ \A k \in 1..(Len(history) - 1) : history[k + 1].previous = history[k].current

\* C2: an updater that returns a subset of the fields, correctly typed, on a
\* snapshot that satisfies the schema, commits: the returned fields are replaced
\* and every other field keeps its value.
C2_PartialUpdateCommits ==
    [][\A n \in 1..Len(subs) :
          (/\ IsBodyStep(n)
           /\ ResultOf(n).ok
           /\ WellTyped(ResultOf(n).obj)
           /\ validateState(state))
          => (/\ subs'[n].status = "committed"
              /\ state' = Spread(state, ResultOf(n).obj))]_vars

\* C3: when the updater's result fails validation (or is null), the promise
\* rejects, the snapshot and the history stay as they were, no subscriber is
\* called and no persistence write is scheduled.
C3_RejectedLeavesStateUnchanged ==
    [][\A n \in 1..Len(subs) :
          (/\ IsBodyStep(n)
           /\ ~(ResultOf(n).ok /\ validateState(ResultOf(n).obj)))
          => (/\ subs'[n].status = "rejected"
              /\ state' = state
              /\ history' = history
              /\ notifyLog' = notifyLog
              /\ saveTimer' = saveTimer
              /\ storage' = storage)]_vars

\* A submission was rejected while a subscriber on the field it returned was
\* registered and an earlier commit had been made
C3_Witness ==
    \E n \in 1..Len(subs) :
        /\ subs[n].status = "rejected"
        /\ subs[n].updater = Member("likedVideos", "1", TRUE)
        /\ "likedVideos" \in DOMAIN subscribers
        /\ \E m \in 1..(n - 1) : subs[m].status = "committed"

-----------------------------------------------------------------------------
(* Properties of notification *)

\* The step runs the deferred body of call n and the updater's result is valid
IsCommitStep(n) ==
    /\ IsBodyStep(n)
    /\ ResultOf(n).ok
    /\ validateState(ResultOf(n).obj)

\* The subscriber calls the step makes
NewCalls == SubSeq(notifyLog', Len(notifyLog) + 1, Len(notifyLog'))

\* The fields the step changes, as getChangedKeys reports them
ChangedNow == Range(getChangedKeys(state, state'))

\* The (key, callback) registrations a commit that changes the keys in K has to call
Due(K) ==
    {<<key, cb>> \in (K \cup {"*"}) \X Callbacks :
        cb \in Range(SubscribersOf(subscribers, key))}

\* C9: a callback under a changed key throws; every other callback of that key,
\* of the other changed keys and of '*' is still called for the commit, the
\* commit stays published and the promise resolves.
C9_SubscriberIsolation ==
    [][\A n \in 1..Len(subs) :
          (/\ IsCommitStep(n)
           /\ \E key \in Range(getChangedKeys(state, Spread(state, ResultOf(n).obj))) :
                  \E cb \in Range(SubscribersOf(subscribers, key)) : Throws(cb))
          => (/\ state' = Spread(state, ResultOf(n).obj)
              /\ subs'[n].status = "committed"
              /\ history' # <<>>
              /\ history'[Len(history')].current = state'
              /\ \A d \in Due(ChangedNow) :
                    \E i \in 1..Len(NewCalls) :
                        /\ NewCalls[i].key = d[1]
                        /\ NewCalls[i].cb = d[2]
                        /\ NewCalls[i].sub = n)]_vars

\* A commit changed two fields; a subscriber of the first changed field threw,
\* and a subscriber of the other field and a subscriber of '*' were called
\* after it for the same commit
C9_Witness ==
    \E i, j \in 1..Len(notifyLog) :
        /\ i < j
        /\ notifyLog[i].threw
        /\ notifyLog[i].key = "likedVideos"
        /\ notifyLog[j].sub = notifyLog[i].sub
        /\ notifyLog[j].key = "*"
        /\ \E k \in (i + 1)..(j - 1) :
              notifyLog[k].key = "online" /\ notifyLog[k].sub = notifyLog[i].sub

\* C10: after each commit a callback registered under field key k is called
\* exactly once if k changed and not at all otherwise, with (new value of k,
\* previous value of k, k), and every keyed call precedes every '*' call.
C10_KeyedNotification ==
    [][\A n \in 1..Len(subs) :
          IsCommitStep(n) =>
            LET calls == NewCalls
                due == Due(ChangedNow)
            IN  /\ \A d \in due :
                      d[1] # "*" =>
                        Cardinality({i \in 1..Len(calls) :
                                        calls[i].key = d[1] /\ calls[i].cb = d[2]}) = 1
                /\ \A i \in 1..Len(calls) :
                      calls[i].key # "*" =>
                        /\ <<calls[i].key, calls[i].cb>> \in due
                        /\ calls[i].new = state'[calls[i].key]
                        /\ calls[i].prev = state[calls[i].key]
                        /\ calls[i].sub = n
                /\ \A i, j \in 1..Len(calls) :
                      (calls[i].key # "*" /\ calls[j].key = "*") => i < j]_vars

\* A commit changed 'online' only: the 'online' subscriber was called before
\* the '*' subscriber and the registered 'likedVideos' subscriber was not called
C10_Witness ==
    \E i, j \in 1..Len(notifyLog) :
        /\ i < j
        /\ notifyLog[i].key = "online"
        /\ notifyLog[j].key = "*"
        /\ notifyLog[j].sub = notifyLog[i].sub
        /\ "likedVideos" \in DOMAIN subscribers
        /\ \A k \in 1..Len(notifyLog) : notifyLog[k].key # "likedVideos"

\* C11: for every commit, each callback registered under '*' is called exactly
\* once, also when no field changed, with (the new snapshot, the previous
\* snapshot, the list of changed field names); a callback not registered under
\* '*' gets no such call.
C11_WildcardEveryCommit ==
    [][\A n \in 1..Len(subs) :
          IsCommitStep(n) =>
            /\ \A cb \in Callbacks :
                  Cardinality({i \in 1..Len(NewCalls) :
                                  NewCalls[i].key = "*" /\ NewCalls[i].cb = cb})
                  = IF cb \in Range(SubscribersOf(subscribers, "*")) THEN 1 ELSE 0
            /\ \A i \in 1..Len(NewCalls) :
                  NewCalls[i].key = "*" =>
                    /\ NewCalls[i].new = state'
                    /\ NewCalls[i].prev = state
                    /\ NewCalls[i].changed = getChangedKeys(state, state')
                    /\ NewCalls[i].sub = n]_vars

\* A '*' subscriber was called for a commit that changed no field and, in the
\* same behaviour, for a commit that changed one
C11_Witness ==
    \E i, j \in 1..Len(notifyLog) :
        /\ notifyLog[i].key = "*"
        /\ notifyLog[i].changed = <<>>
        /\ notifyLog[j].key = "*"
        /\ notifyLog[j].changed # <<>>
        /\ notifyLog[j].sub # notifyLog[i].sub

\* The (key, callback) registrations a registry holds
Registrations(registry) ==
    {<<key, cb>> \in (DOMAIN registry) \X Callbacks : cb \in Range(registry[key])}

\* C12: a step that changes the registry either adds one registration or
\* removes exactly one, a registered callback for which an unsubscribe function
\* was returned: every other callback of that key (in its order) and every
\* other key stay as they were, the key entry goes exactly when its last
\* callback goes, and no key is left with an empty callback set.  An
\* unsubscribe function whose callback is no longer registered changes nothing.
C12_UnsubscribeRemovesOnlyItsCallback ==
    [][LET old == Registrations(subscribers)
           new == Registrations(subscribers')
       IN  /\ \A key \in DOMAIN subscribers' : subscribers'[key] # <<>>
           /\ subscribers' # subscribers =>
                 \/ \E d \in new \ old : new = old \cup {d}
                 \/ \E d \in old \cap unsubscribes :
                       /\ new = old \ {d}
                       /\ \A key \in DOMAIN subscribers :
                             IF subscribers[key] = <<d[2]>> /\ key = d[1]
                             THEN key \notin DOMAIN subscribers'
                             ELSE /\ key \in DOMAIN subscribers'
                                  /\ subscribers'[key] =
                                        SelectSeqBy(subscribers[key],
                                            IF key = d[1]
                                            THEN Range(subscribers[key]) \ {d[2]}
                                            ELSE Range(subscribers[key]))
                       /\ DOMAIN subscribers' \subseteq DOMAIN subscribers]_vars

\* Two callbacks were registered under 'online' and one under '*'; the
\* unsubscribe function of the first 'online' callback and that of the '*'
\* callback were called: the second 'online' callback is still registered, the
\* '*' entry is gone, and both functions can be called again
C12_Witness ==
    /\ {<<"online", "observer1">>, <<"online", "thrower">>, <<"*", "observer1">>}
          \subseteq unsubscribes
    /\ "online" \in DOMAIN subscribers
    /\ subscribers["online"] = <<"thrower">>
    /\ "*" \notin DOMAIN subscribers

\* C13: getChangedKeys(previous, current) returns exactly the fields, over the
\* fields of both snapshots, whose values differ: collections of the same
\* size with the same members, or the same values under the same keys, do
\* not differ; collections that differ in size, in a member or key, or in
\* the value under a key do.
C13_ChangedKeysExact ==
    (returned # <<>> /\ returned.method = "getChangedKeys") =>
        Range(returned.result) =
            {key \in (DOMAIN returned.previous) \cup (DOMAIN returned.current) :
                Get(returned.previous, key) # Get(returned.current, key)}

\* C14: every subscriber call of a commit is made in the step that publishes
\* the commit: the callback finds the new snapshot in the state accessor, the
\* snapshot is the current end of the history, and the updater of no later
\* submission has run.
C14_NotifyAfterPublishBeforeNext ==
    [][\A i \in 1..Len(NewCalls) :
          LET n == NewCalls[i].sub
          IN  /\ IsCommitStep(n)
              /\ NewCalls[i].seen = state'
              /\ NewCalls[i].seen = Spread(state, ResultOf(n).obj)
              /\ history'[Len(history')].current = NewCalls[i].seen
              /\ \A m \in (n + 1)..Len(subs') : subs'[m].status \in {"queued", "dropped"}]_vars

\* A commit changed 'online': its subscriber found the new value in the state
\* accessor and called setState from inside the notification, and the '*'
\* subscriber was called after that for the same commit
C14_Witness ==
    \E i, j \in 1..Len(notifyLog) :
        /\ i < j
        /\ notifyLog[i].cb = "resubmitter"
        /\ notifyLog[i].new # notifyLog[i].prev
        /\ notifyLog[i].seen.online = notifyLog[i].new
        /\ notifyLog[j].key = "*"
        /\ notifyLog[j].sub = notifyLog[i].sub
        /\ \E m \in (notifyLog[i].sub + 1)..Len(subs) : subs[m].updater = Resubmitted

-----------------------------------------------------------------------------
(* Properties of the optimistic toggles *)

Toggles == {"likeVideo", "saveVideo"}

\* proc p made a remote call that failed
RemoteFailed(p) ==
    \E r \in 1..Len(requests) : requests[r].proc = p /\ requests[r].status = "failed"

\* The connectivity flag has been true since the constructor ran
OnlineThroughout ==
    /\ state.online.v
    /\ \A i \in 1..Len(history) : history[i].previous.online.v

\* C4: a toggle of an id that is not a member, with the connectivity flag true
\* and no other toggle around: while the remote call is in flight the snapshot
\* shows the id as a member; the toggle ends either resolved with the id a
\* member, or, when the remote call failed, rejected with the remote error and
\* the id again not a member.
C4_OptimisticToggle ==
    \A p \in 1..Len(procs) :
        (/\ procs[p].op \in Toggles
         /\ Len(procs) = 1
         /\ ~procs[p].with.previous
         /\ OnlineThroughout)
        => LET member == procs[p].with.videoId \in state[ToggleField(procs[p].op)].v
           IN  /\ procs[p].pc = "remote" => member
               /\ procs[p].pc = "done" =>
                     \/ procs[p].out = "resolved" /\ member /\ ~RemoteFailed(p)
                     \/ procs[p].out = "rejected:remote" /\ ~member /\ RemoteFailed(p)

\* The requests proc p issued, in order
RequestsOf(p) == SelectSeq(requests, LAMBDA r : r.proc = p)

\* C25: once every toggle of one kind on the id has made its remote call and
\* has ended, and nothing is left to run, the id is a member exactly when the
\* most recently issued
\* remote call of that kind that succeeded sent it as a member, or, when none
\* succeeded, when it was a member before the first of these toggles.
C25_LastSuccessWins ==
    \A op \in Toggles :
        LET P == {p \in 1..Len(procs) : procs[p].op = op}
            ok == {r \in 1..Len(requests) :
                      requests[r].kind = ToggleType(op) /\ requests[r].status = "ok"}
            last == CHOOSE r \in ok : \A r2 \in ok : r2 <= r
            first == CHOOSE p \in P : \A p2 \in P : p <= p2
            sent == IF op = "likeVideo" THEN requests[last].what.liked
                    ELSE requests[last].what.saved
        IN  (/\ P # {}
             /\ \A p \in P : procs[p].pc = "done" /\ RequestsOf(p) # <<>>
             /\ microtasks = <<>>
             /\ \A r \in 1..Len(requests) : requests[r].status # "inflight")
            => (procs[first].with.videoId \in state[ToggleField(op)].v)
                  = (IF ok # {} THEN sent ELSE procs[first].with.previous)

\* The updater of the compensating mutation of toggle proc
Compensation(proc) ==
    Member(ToggleField(proc.op), proc.with.videoId, proc.with.previous)

\* C26: a toggle whose remote call failed has ended only after its
\* compensating mutation was committed, whatever else was submitted
\* meanwhile; and the step that runs the compensating mutation sets the
\* membership of the toggled id to what it was before the toggle and leaves
\* every other id and every other field as it was.
C26_CompensationCommits ==
    [][/\ \A p \in 1..Len(procs') :
            (/\ procs'[p].op \in Toggles
             /\ procs'[p].pc = "done"
             /\ \E r \in 1..Len(requests') :
                   requests'[r].proc = p /\ requests'[r].status = "failed")
            => /\ procs'[p].out = "rejected:remote"
               /\ \E n \in 1..Len(subs') :
                     /\ subs'[n].awaiter = p
                     /\ subs'[n].updater = Compensation(procs'[p])
                     /\ subs'[n].status = "committed"
       /\ \A n \in 1..Len(subs) :
            (/\ IsBodyStep(n)
             /\ subs[n].awaiter # 0
             /\ subs[n].updater = Compensation(procs[subs[n].awaiter]))
            => LET w == subs[n].updater.with
               IN  state' = [state EXCEPT
                                ![w.field] = SetOf(IF w.on THEN @.v \cup {w.id}
                                                           ELSE @.v \ {w.id})]]_vars

-----------------------------------------------------------------------------
(* Properties of the offline replay *)

IsReplay(p) == procs[p].op = "syncPendingActions"

\* Callers restored the pending list once, so only replays change it afterwards
RestoredOnce ==
    Cardinality({n \in 1..Len(subs) :
        subs[n].updater.op = "whole" /\ subs[n].updater.with.op = "value"
        /\ "pendingActions" \in DOMAIN subs[n].updater.with.with}) = 1

\* C5: replay halts on the first failure.  A single replay of [A, B, C] that
\* has ended called the actions in order up to the first failure and no
\* further, and the pending list is then the failed action and those after
\* it (empty when none failed).
C5_ReplayHaltsOnFirstFailure ==
    (/\ Len(procs) = 1
     /\ IsReplay(1)
     /\ procs[1].pc = "done"
     /\ microtasks = <<>>
     /\ RestoredOnce
     /\ Len(procs[1].with.acts) = 3)
    => LET acts == procs[1].with.acts
           reqs == RequestsOf(1)
           k == Len(reqs)
       IN  /\ k >= 1
           /\ \A j \in 1..k : reqs[j].what = acts[j]
           /\ \A j \in 1..(k - 1) : reqs[j].status = "ok"
           /\ state.pendingActions.v =
                 IF reqs[k].status = "failed" THEN SubSeq(acts, k, Len(acts)) ELSE <<>>

\* C6: at most one replay remote call is in flight at any time, and each
\* replay calls the pending actions in enqueue order.
C6_ReplaySequential ==
    /\ Cardinality({r \in 1..Len(requests) :
           requests[r].kind = "replay" /\ requests[r].status = "inflight"}) <= 1
    /\ \A p \in 1..Len(procs) :
          IsReplay(p) =>
            \A j \in 1..Len(RequestsOf(p)) : RequestsOf(p)[j].what = procs[p].with.acts[j]

\* C29: a single replay of a restored list has returned and the removal
\* mutations it submitted have run: the persisted pending list is the
\* snapshot's pending list, and it is empty when the remote call of every
\* action succeeded.
C29_ReplayPersistsResult ==
    (/\ Len(procs) = 1
     /\ IsReplay(1)
     /\ procs[1].pc = "done"
     /\ microtasks = <<>>
     /\ RestoredOnce
     /\ procs[1].with.acts # <<>>)
    => /\ "pendingActions" \in DOMAIN storage
       /\ storage["pendingActions"] = state.pendingActions
       /\ (/\ Len(RequestsOf(1)) = Len(procs[1].with.acts)
           /\ \A j \in 1..Len(RequestsOf(1)) : RequestsOf(1)[j].status = "ok")
          => storage["pendingActions"] = Arr(<<>>)

\* The connectivity flag has been false since the constructor ran
OfflineThroughout ==
    /\ ~state.online.v
    /\ \A i \in 1..Len(history) : ~history[i].previous.online.v

\* C15: a toggle with no other toggle around, once it and the mutations it
\* submitted have ended.  With the connectivity flag false it made no remote
\* call, resolved, and the pending list holds exactly one action, with the
\* toggle's type and a payload of the id and its new membership; with the flag
\* true it made its remote call and the pending list is empty.
C15_OfflineToggleEnqueues ==
    \A p \in 1..Len(procs) :
        (/\ procs[p].op \in Toggles
         /\ Len(procs) = 1
         /\ procs[p].pc = "done"
         /\ microtasks = <<>>)
        => LET pending == state.pendingActions.v
               w == procs[p].with
           IN  /\ OfflineThroughout =>
                     /\ RequestsOf(p) = <<>>
                     /\ procs[p].out = "resolved"
                     /\ Len(pending) = 1
                     /\ pending[1].type = ToggleType(procs[p].op)
                     /\ pending[1].data = ToggleData(procs[p].op, w.videoId, ~w.previous)
               /\ OnlineThroughout =>
                     /\ Len(RequestsOf(p)) = 1
                     /\ pending = <<>>

\* C16: when the mutation queueAction submitted has run, the new action is the
\* last element of the snapshot's pending list, and the persisted pending
\* list is the snapshot's pending list.
C16_EnqueueAppendsAndPersists ==
    [][\A n \in 1..Len(subs) :
          (IsBodyStep(n) /\ subs[n].updater.op = "enqueue")
          => LET pending == state'.pendingActions.v
             IN  /\ subs'[n].status = "committed"
                 /\ pending # <<>>
                 /\ pending[Len(pending)] = subs[n].updater.with.action
                 /\ "pendingActions" \in DOMAIN storage'
                 /\ storage'["pendingActions"] = state'.pendingActions]_vars

\* What the 'online' and 'offline' listeners pass to setState
FromProbe(u) == u \in {Value([online |-> Bool(TRUE)]), Value([online |-> Bool(FALSE)])}

\* C17: the setState of an 'online' or 'offline' event is accepted, and when
\* its deferred body has run the snapshot's connectivity field holds the
\* value of the event; the 'online' event starts a replay of the pending
\* list in the same task.
C17_ProbeFlipsConnectivity ==
    [][/\ \A n \in (Len(subs) + 1)..Len(subs') :
            FromProbe(subs'[n].updater) =>
                /\ subs'[n].status = "queued"
                /\ subs'[n].updater.with.online.v =>
                      /\ Len(procs') = Len(procs) + 1
                      /\ procs'[Len(procs')].op = "syncPendingActions"
                      /\ procs'[Len(procs')].with.acts = state.pendingActions.v
       /\ \A n \in 1..Len(subs) :
            (IsBodyStep(n) /\ FromProbe(subs[n].updater))
            => state'.online = subs[n].updater.with.online]_vars

\* C18: init has completed, nothing else has run, and all five records were
\* persisted: the snapshot holds the persisted user, the persisted liked and
\* saved ids as Sets, the persisted indexes as a Map, the persisted ui merged
\* over the defaults, and the constructor's value in every other field.
C18_InitLoadsPersisted ==
    (/\ Len(procs) = 1
     /\ procs[1].op = "init"
     /\ procs[1].pc = "done"
     /\ microtasks = <<>>
     /\ DOMAIN storage = Range(StorageKeys))
    => \A k \in DOMAIN InitialState(TRUE) :
          state[k] =
            CASE k = "user" -> storage[k]
              [] k \in {"likedVideos", "savedVideos"} -> SetOf(Range(storage[k].v))
              [] k = "currentMediaIndexes" -> MapOf(storage[k].v)
              [] k = "ui" -> Obj(Spread(DefaultUi.v, storage[k].v))
              [] OTHER -> InitialState(state.online.v)[k]

\* C28: once init has completed, a pending list persisted by an earlier
\* session is the snapshot's pending list, with the same actions in the same
\* order.
C28_PendingSurvivesRestart ==
    (/\ \E p \in 1..Len(procs) : procs[p].op = "init" /\ procs[p].pc = "done"
     /\ "pendingActions" \in DOMAIN storage)
    => state.pendingActions = storage["pendingActions"]

\* C19: the history holds min(number of commits, maxHistoryLength) entries,
\* never more than maxHistoryLength; they are the most recent commits in
\* commit order: each entry starts from the result of the entry before it,
\* the last entry is the current snapshot, and the first entry kept is the
\* commit that follows the discarded ones.
C19_HistoryBounded ==
    LET commits == Cardinality(Committed)
        kept == Len(history)
    IN  /\ kept <= maxHistoryLength
        /\ kept = IF commits < maxHistoryLength THEN commits ELSE maxHistoryLength
        /\ \A k \in 1..(kept - 1) : history[k + 1].previous = history[k].current
        /\ kept > 0 =>
              /\ history[kept].current = state
              /\ history[1].current.likedVideos.v = 1..(commits - kept + 1)

\* More commits were made than the history keeps: the two oldest were discarded
C19_Witness ==
    /\ Cardinality(Committed) = maxHistoryLength + 2
    /\ Len(history) = maxHistoryLength
    /\ history[1].previous.likedVideos.v = {1, 2}

\* The content of a value: a cache entry without its identity
ContentOf(x) ==
    IF x.kind = "Map"
    THEN MapOf([j \in DOMAIN x.v |->
                  IF "ref" \in DOMAIN x.v[j]
                  THEN [data |-> x.v[j].data, timestamp |-> x.v[j].timestamp]
                  ELSE x.v[j]])
    ELSE x

\* The content of a snapshot
Content(s) == [k \in DOMAIN s |-> ContentOf(s[k])]

\* Call n commits next after the commit of call m, made with the same updater
CommitsAgain(m, n) ==
    /\ m < n
    /\ IsCommitStep(n)
    /\ subs[m].status = "committed"
    /\ subs[m].updater = subs[n].updater
    /\ \A j \in (m + 1)..(n - 1) : subs[j].status # "committed"

\* C20: the second of two commits in sequence with the same valid updater,
\* idempotent on the field it sets (what it returns has the content of the
\* snapshot it is given): the new snapshot has the content of the first
\* commit's, no field is reported changed, no keyed subscriber is called, and
\* the history stays within its bound.
C20_IdempotentTwice ==
    [][\A m, n \in 1..Len(subs) :
          (/\ CommitsAgain(m, n)
           /\ Content(Spread(state, ResultOf(n).obj)) = Content(state))
          => (/\ Content(state') = Content(state)
              /\ getChangedKeys(state, state') = <<>>
              /\ \A i \in 1..Len(NewCalls) : NewCalls[i].key = "*"
              /\ Len(history') <= maxHistoryLength)]_vars

\* C20 as amended: the second of two commits in sequence with the same valid
\* updater, idempotent on the field it sets: the new snapshot has the content
\* of the first commit's and the history stays within its bound; the fields
\* reported changed are those whose Map holds an entry object the updater
\* created anew, and only their keyed subscribers are called.  When the
\* updater returns the same members and the same values under the same keys,
\* no field is reported changed and no keyed subscriber is called.
C20_IdempotentTwiceAmended ==
    [][\A m, n \in 1..Len(subs) :
          (/\ CommitsAgain(m, n)
           /\ Content(Spread(state, ResultOf(n).obj)) = Content(state))
          => (/\ Content(state') = Content(state)
              /\ Len(history') <= maxHistoryLength
              /\ Range(getChangedKeys(state, state')) =
                    {k \in DOMAIN state : state'[k] # state[k]}
              /\ \A i \in 1..Len(NewCalls) :
                    \/ NewCalls[i].key = "*"
                    \/ state'[NewCalls[i].key] # state[NewCalls[i].key]
              /\ Spread(state, ResultOf(n).obj) = state =>
                    /\ getChangedKeys(state, state') = <<>>
                    /\ \A i \in 1..Len(NewCalls) : NewCalls[i].key = "*")]_vars

\* The updater that adds '1' to likedVideos committed twice in sequence: the
\* 'likedVideos' subscriber was called for the first commit and not for the
\* second
C20_Witness ==
    \E m, n \in 1..Len(subs) :
        /\ m < n
        /\ subs[m].updater = Whole(Member("likedVideos", "1", TRUE))
        /\ subs[n].updater = subs[m].updater
        /\ subs[m].status = "committed"
        /\ subs[n].status = "committed"
        /\ \A j \in (m + 1)..(n - 1) : subs[j].status # "committed"
        /\ \E i \in 1..Len(notifyLog) :
              notifyLog[i].sub = m /\ notifyLog[i].key = "likedVideos"
        /\ \A i \in 1..Len(notifyLog) : notifyLog[i].sub # n

-----------------------------------------------------------------------------
(* Properties of the cache *)

\* C7: a second getWithCache for the key of a first one that missed and has
\* returned, less than ttl after the first call, calls no producer and returns
\* the first call's data; more than ttl after it, it calls the producer again.
C7_CacheHitWithinTtl ==
    [][(/\ Len(procs) = 1
        /\ Len(procs') = 2
        /\ procs[1].op = "getWithCache"
        /\ procs'[2].op = "getWithCache"
        /\ procs[1].pc = "done"
        /\ procs[1].out = "resolved"
        /\ Len(requests) = 1
        /\ microtasks = <<>>
        /\ Len(subs) = 1
        /\ procs'[2].with.key = procs[1].with.key)
       => IF now - procs[1].with.now < procs'[2].with.ttl
          THEN /\ requests' = requests
               /\ procs'[2].pc = "done"
               /\ procs'[2].with.data = procs[1].with.data
          ELSE (now - procs[1].with.now > procs'[2].with.ttl)
                   => Len(requests') = 2]_vars

\* C8: invalidateCache(pattern) results in exactly one committed mutation:
\* the call is accepted, its body commits, afterwards no cache key includes
\* the pattern and every other entry is as it was.
C8_InvalidateRemovesMatching ==
    [][/\ \A n \in 1..Len(subs') :
            (n > Len(subs) /\ subs'[n].updater.op = "cacheDelete")
            => subs'[n].status = "queued"
       /\ \A n \in 1..Len(subs) :
            (IsBodyStep(n) /\ subs[n].updater.op = "cacheDelete")
            => LET pattern == subs[n].updater.with.pattern
                   before == state.cache.v
                   after == state'.cache.v
               IN  /\ subs'[n].status = "committed"
                   /\ \A key \in DOMAIN after : ~Includes(key, pattern)
                   /\ \A key \in DOMAIN before :
                         ~Includes(key, pattern)
                         => (key \in DOMAIN after /\ after[key] = before[key])]_vars


-----------------------------------------------------------------------------
(* Properties of persistence *)

\* The number of writes the debounced save p has made in the list of procs P
WritesMade(P, p) ==
    IF p <= Len(P) /\ P[p].op = "saveToStorageDebounced" THEN P[p].with.i ELSE 0

\* C21: a step in which the debounced save makes a write, failing or not,
\* leaves the snapshot and the history as they were and changes the outcome of
\* no setState call: the commits stay resolved.  A write that fails leaves the
\* storage as it was; a write that succeeds stores, under its key alone, the
\* value the current snapshot holds for that key at that moment.
C21_FailedWriteContained ==
    [][\A p \in 1..Len(procs') :
          WritesMade(procs', p) = WritesMade(procs, p) + 1 =>
            LET key == DebouncedKeys[WritesMade(procs', p)]
            IN  /\ state' = state
                /\ history' = history
                /\ subs' = subs
                /\ Committed # {}
                /\ procs'[p].out \in {"", "resolved"}
                /\ IF storageFull
                   THEN storage' = storage
                   ELSE /\ DOMAIN storage' = DOMAIN storage \cup {key}
                        /\ \A k \in DOMAIN storage \ {key} : storage'[k] = storage[k]
                        /\ CASE key \in {"likedVideos", "savedVideos"} ->
                                  /\ storage'[key].kind = "Array"
                                  /\ Range(storage'[key].v) = state[key].v
                                  /\ Len(storage'[key].v) = Cardinality(state[key].v)
                             [] key = "currentMediaIndexes" ->
                                  storage'[key] = Obj(state[key].v)
                             [] OTHER -> storage'[key] = state[key]]_vars

\* Two debounced saves have run.  The writes of 'user' failed both times; a
\* later write of 'likedVideos' and one of 'ui' succeeded and hold the values
\* of the snapshot of the second commit
C21_Witness ==
    /\ Len(procs) = 2
    /\ \A p \in 1..2 : procs[p].op = "saveToStorageDebounced" /\ procs[p].pc = "done"
    /\ Cardinality(Committed) = 2
    /\ "user" \notin DOMAIN storage
    /\ "likedVideos" \in DOMAIN storage
    /\ storage["likedVideos"] = Arr(<<"1">>)
    /\ "ui" \in DOMAIN storage
    /\ storage["ui"] = state.ui
    /\ state.ui.v.theme = "light"


-----------------------------------------------------------------------------
(* Properties of the failure paths *)

\* C22: in every reachable state the current snapshot satisfies the schema:
\* user is an object or null, videos, likedVideos, savedVideos and ui are
\* objects, online is a boolean; and the snapshot is the constructor's or the
\* result of the last commit.
C22_SnapshotAlwaysValid ==
    /\ TypeOf(Get(state, "user")) = "object"
    /\ \A k \in {"videos", "likedVideos", "savedVideos", "ui"} :
          TypeOf(Get(state, k)) = "object"
    /\ TypeOf(Get(state, "online")) = "boolean"
    /\ IF history = <<>> THEN state \in {InitialState(TRUE), InitialState(FALSE)}
       ELSE state = history[Len(history)].current

\* A submission was committed, others were rejected and dropped, a remote
\* call failed and the first write of a debounced save failed
C22_Witness ==
    /\ \E n \in 1..Len(subs) : subs[n].status = "committed"
    /\ \E n \in 1..Len(subs) :
          subs[n].status = "rejected" /\ subs[n].updater = Whole(Value([online |-> Str("yes")]))
    /\ \E n \in 1..Len(subs) : subs[n].status = "dropped"
    /\ \E r \in 1..Len(requests) : requests[r].status = "failed"
    /\ \E p \in 1..Len(procs) :
          procs[p].op = "saveToStorageDebounced" /\ procs[p].pc = "done"
    /\ "user" \notin DOMAIN storage


\* The step runs a deferred body
IsBody == microtasks # <<>> /\ Head(microtasks).kind = "body"

\* C23: a setState call made while isMutating is set (by a call still in
\* flight, or by an earlier call of the same task) is recorded as dropped: no
\* deferred body is queued for it, then or later, its promise is resolved at
\* once, so that an awaiter continues as after a commit, and a task that
\* makes only such calls changes neither the snapshot nor the history, and
\* calls no subscriber.
C23_DroppedWhileMutating ==
    [][/\ \A n \in (Len(subs) + 1)..Len(subs') :
            (isMutating \/ \E m \in (Len(subs) + 1)..(n - 1) : subs'[m].status = "queued")
            => /\ subs'[n].status = "dropped"
               /\ Body(n) \notin Range(microtasks')
               /\ subs'[n].awaiter # 0 =>
                     Resume(subs'[n].awaiter, "ok") \in Range(microtasks')
       /\ \A n \in 1..Len(subs) :
            subs[n].status = "dropped" =>
                /\ subs'[n] = subs[n]
                /\ Body(n) \notin Range(microtasks')
       /\ (/\ Len(subs') > Len(subs)
           /\ ~IsBody
           /\ \A n \in (Len(subs) + 1)..Len(subs') : subs'[n].status = "dropped")
          => /\ state' = state
             /\ history' = history
             /\ subscribers' = subscribers
             /\ notifyLog' = notifyLog]_vars

\* A like was toggled while a submission was in flight: its setState was
\* dropped, the toggle went on to its remote call and resolved, and the id is
\* not a member; the submission in flight committed, and the setState its
\* subscriber made from inside the notification was dropped too; every
\* microtask has run
C23_Witness ==
    /\ \E n \in 1..Len(subs) :
          /\ subs[n].status = "dropped"
          /\ subs[n].awaiter # 0
          /\ procs[subs[n].awaiter].out = "resolved"
          /\ "1" \notin state.likedVideos.v
          /\ \E m \in 1..(n - 1) : subs[m].status = "committed"
    /\ \E n \in 1..Len(subs) :
          subs[n].status = "dropped" /\ subs[n].updater = Resubmitted
    /\ microtasks = <<>>


-----------------------------------------------------------------------------
(* Properties of the pending list *)

C27_PendingInEnqueueOrder ==
    [][LET pending == state.pendingActions.v
           after == state'.pendingActions.v
       IN  /\ \A n \in 1..Len(subs) :
                 (IsBodyStep(n) /\ subs[n].updater.op = "enqueue")
                 => after = Append(pending, subs[n].updater.with.action)
           /\ \A n \in 1..Len(subs) :
                 (IsBodyStep(n) /\ subs[n].updater.op = "dequeue")
                 => /\ after = SelectSeq(pending, LAMBDA a : a.id # subs[n].updater.with.id)
                    /\ Len(after) >= Len(pending) - 1
           /\ (~\E n \in 1..Len(subs) :
                   IsBodyStep(n) /\ subs[n].updater.op \in {"enqueue", "dequeue", "whole"})
              => after = pending
           /\ \A i, j \in 1..Len(after) : i < j => after[i].id < after[j].id]_vars


\* C30: a getWithCache call with ttl t returns the entry of its key without
\* calling the producer only when the entry exists and now - timestamp < t;
\* when now - timestamp = t, and whenever t = 0, it calls the producer.
C30_ServedOnlyWithinTtl ==
    [][(/\ Len(procs') = Len(procs) + 1
        /\ procs'[Len(procs')].op = "getWithCache")
       => LET call == procs'[Len(procs')]
              key == CacheKey(call.with.key)
              ttl == call.with.ttl
              cache == state.cache.v
              produced == Len(requests') = Len(requests) + 1
              served == call.pc = "done" /\ requests' = requests
          IN  /\ served \/ produced
              /\ served => (key \in DOMAIN cache /\ now - cache[key].timestamp < ttl)
              /\ (key \in DOMAIN cache /\ now - cache[key].timestamp = ttl) => produced
              /\ ttl = 0 => produced]_vars


-----------------------------------------------------------------------------
(* Properties of overlapping cache reads *)

\* C31: a getWithCache call that starts while the producer of an earlier call
\* for the same key has not resolved, within the ttl of that earlier call's
\* start, calls no producer of its own.
C31_OverlappingCallsShareProducer ==
    [][(/\ Len(procs') = Len(procs) + 1
        /\ procs'[Len(procs')].op = "getWithCache")
       => LET call == procs'[Len(procs')]
          IN  \A p \in 1..Len(procs) :
                (/\ procs[p].op = "getWithCache"
                 /\ procs[p].pc = "remote"
                 /\ procs[p].with.key = call.with.key
                 /\ now - procs[p].with.now < call.with.ttl)
                => requests' = requests]_vars


\* C32: the store mutation getWithCache submits after a miss is accepted,
\* also when another mutation was submitted in the same turn, and its body
\* commits: the cache then holds an entry for the key with the produced data,
\* every other entry and every other field is as it was, and 'cache' is the
\* one field reported changed.
C32_StoreMutationCommits ==
    [][/\ \A n \in (Len(subs) + 1)..Len(subs') :
            subs'[n].updater.op = "cacheSet" => subs'[n].status = "queued"
       /\ \A n \in 1..Len(subs) :
            (IsBodyStep(n) /\ subs[n].updater.op = "cacheSet")
            => LET w == subs[n].updater.with
                   after == state'.cache.v
               IN  /\ subs'[n].status = "committed"
                   /\ w.key \in DOMAIN after
                   /\ after[w.key].data = w.data
                   /\ after[w.key].timestamp = w.ts
                   /\ \A k \in DOMAIN state.cache.v \ {w.key} :
                         k \in DOMAIN after /\ after[k] = state.cache.v[k]
                   /\ \A f \in DOMAIN state \ {"cache"} : state'[f] = state[f]
                   /\ getChangedKeys(state, state') = <<"cache">>]_vars


-----------------------------------------------------------------------------
(* Properties of the debounced persistence *)

\* Nothing is left to run and no save is armed or under way
Quiet ==
    /\ ~saveTimer
    /\ microtasks = <<>>
    /\ \A p \in 1..Len(procs) : procs[p].pc = "done"

\* The five persisted records hold the values of the current snapshot
PersistedIsCurrent ==
    \A key \in Range(DebouncedKeys) :
        /\ key \in DOMAIN storage
        /\ CASE key \in {"likedVideos", "savedVideos"} ->
                  /\ storage[key].kind = "Array"
                  /\ Range(storage[key].v) = state[key].v
                  /\ Len(storage[key].v) = Cardinality(state[key].v)
             [] key = "currentMediaIndexes" -> storage[key] = Obj(state[key].v)
             [] OTHER -> storage[key] = state[key]

\* C33: the timeout is armed by a commit and by nothing else, it stays one
\* timeout however many commits follow, and a batch of writes starts only
\* when it expires, which disarms it: one batch per burst of commits.  When no
\* write has failed, once the batch has ended with nothing armed and nothing
\* left to run, the five persisted records hold the values of the latest
\* committed snapshot.
C33_OneBatchPerBurst ==
    [][/\ (saveTimer' /\ ~saveTimer) => history' # history
       /\ \A p \in (Len(procs) + 1)..Len(procs') :
            procs'[p].op = "saveToStorageDebounced" => (saveTimer /\ ~saveTimer')
       /\ (Quiet' /\ history' # <<>>) => PersistedIsCurrent']_vars

\* Two commits were made in one burst and one batch of writes followed: the
\* records hold the values of the second commit's snapshot
C33_Witness ==
    /\ Cardinality(Committed) = 2
    /\ Len(procs) = 1
    /\ Quiet
    /\ storage["likedVideos"] = Arr(<<"1">>)
    /\ storage["ui"].v.theme = "light"


-----------------------------------------------------------------------------
(* Properties of the shutdown *)

\* cleanup() has returned
CleanedUp == returned # <<>> /\ returned.method = "cleanup"

\* C34: cleanup() cancels the timeout an earlier commit armed, and once it
\* has returned, with no call made after it, the item store is not written
\* any more.
C34_NoWriteAfterCleanup ==
    [][/\ (CleanedUp' /\ ~CleanedUp) => ~saveTimer'
       /\ CleanedUp => storage' = storage]_vars


-----------------------------------------------------------------------------
(* Properties of the isMutating flag *)

\* The accepted setState calls whose deferred body has not run
Pending == {n \in 1..Len(subs) : subs[n].status = "queued"}

\* C35: isMutating is set exactly while an accepted setState call waits for
\* its deferred body, of which there is at most one; it is clear when the body
\* has ended, whatever its outcome; and a setState call made while no accepted
\* call waits for its body is accepted.
C35_FlagNeverStuck ==
    [][/\ isMutating <=> Pending # {}
       /\ isMutating' <=> Pending' # {}
       /\ Cardinality(Pending') <= 1
       /\ (\E n \in 1..Len(subs) : IsBodyStep(n)) => ~isMutating'
       /\ \A n \in (Len(subs) + 1)..Len(subs') :
            Pending = {} => subs'[n].status = "queued"]_vars

\* Three bodies have ended, one with a commit during which a subscriber
\* threw, one with a failed validation, one with a throwing updater; the call
\* made after them was accepted
C35_Witness ==
    /\ Len(subs) = 4
    /\ \E a, b, c \in 1..3 :
          /\ subs[a].status = "committed"
          /\ \E i \in 1..Len(notifyLog) : notifyLog[i].sub = a /\ notifyLog[i].threw
          /\ subs[b].status = "rejected" /\ subs[b].updater.op = "whole"
          /\ subs[c].status = "rejected" /\ subs[c].updater = ThrowingUpdater
    /\ subs[4].status = "queued"
    /\ isMutating


-----------------------------------------------------------------------------
(* Properties of getVideos *)

\* C36: a getVideos(true) call issues a request of its own, also when the
\* cache holds an unexpired 'videos' entry at the time of the call; it does
\* not resolve with the data of an entry that was in the cache before it.
C36_ForceRefreshFetches ==
    [][(/\ Len(procs') = Len(procs) + 1
        /\ procs'[Len(procs')].op = "getVideos"
        /\ procs'[Len(procs')].with.forceRefresh)
       => /\ Len(requests') = Len(requests) + 1
          /\ requests'[Len(requests')].proc = Len(procs')
          /\ procs'[Len(procs')].pc = "remote"]_vars


-----------------------------------------------------------------------------
(* SecureAuthManager.  A handler is a function from the manager before it  *)
(* ran to the manager after it ran.  An async method runs up to the        *)
(* request it awaits; the continuations that follow a response run in the  *)
(* microtasks of the task that delivers it, with no other task in between. *)
(* A call is [by, frames, wait, signal, out]: who made it, the methods on  *)
(* its await chain (innermost last), the url of the request it waits for,  *)
(* the controller whose signal the request carries, and how it settled.    *)

Last(q) == q[Len(q)]
Front(q) == SubSeq(q, 1, Len(q) - 1)

\* setupAutoTokenRefresh(expiresIn): clearTimeout of the timeout held, then a
\* new timeout whose id is kept
setupAutoTokenRefresh(a) ==
    LET id == a.made + 1
    IN  [a EXCEPT !.timers = (@ \ {a.tokenRefreshTimeout}) \cup {id},
                  !.tokenRefreshTimeout = id,
                  !.made = id]

\* apiRequest(url, options) awaited by the innermost frame of call c
authRequest(a, c, url) ==
    [a EXCEPT !.calls[c].wait = url, !.calls[c].signal = a.controller]

\* clearAuth() awaited by the innermost frame of call c, up to the logout request
clearAuth(a, c) ==
    LET a1 == [a EXCEPT !.token = FALSE, !.user = "none", !.isDemoMode = FALSE,
                        !.timers = @ \ {a.tokenRefreshTimeout},
                        !.aborted = @ \cup {a.controller},
                        !.controller = @ + 1,
                        !.stored = "none",
                        !.calls[c].frames = Append(@, "clearAuth")]
    IN  authRequest(a1, c, "/auth/logout")

\* refreshToken() awaited by the innermost frame of call c, up to its request
refreshToken(a, c) ==
    authRequest([a EXCEPT !.calls[c].frames = Append(@, "refreshToken")], c,
                "/auth/refresh")

RECURSIVE Deliver(_, _, _)
\* The innermost frame of call c continues with the outcome res of what it awaited
Deliver(a, c, res) ==
    LET frames == a.calls[c].frames
        f == Last(frames)
        pop == [a EXCEPT !.calls[c].frames = Front(frames), !.calls[c].wait = ""]
        to(name) == [a EXCEPT !.calls[c].frames = Append(Front(frames), name),
                              !.calls[c].wait = ""]
    IN  CASE frames = <<>> ->
                [a EXCEPT !.calls[c].out = IF res = "err" THEN "rejected" ELSE "resolved",
                          !.calls[c].wait = ""]
          [] f = "clearAuth" ->
                \* a failed logout request is caught
                Deliver(pop, c, "ok")
          [] f = "refreshToken" ->
                IF res = "ok"
                THEN Deliver(setupAutoTokenRefresh(
                                 [pop EXCEPT !.token = TRUE, !.stored = "valid"]),
                             c, "ok")
                ELSE clearAuth(to("refreshToken:catch"), c)
          [] f = "refreshToken:catch" -> Deliver(pop, c, "err")
          [] f = "validateToken" ->
                \* return false after refreshToken(); a throw is caught: return false
                Deliver(pop, c, "false")
          [] f = "checkAuthStatus:validateToken" ->
                IF res = "true"
                THEN authRequest([to("checkAuthStatus:fetchUserProfile")
                                     EXCEPT !.token = TRUE], c, "/user/profile")
                ELSE authRequest(to("checkAuthStatus:validateSession"), c,
                                 "/auth/session")
          [] f = "checkAuthStatus:fetchUserProfile" ->
                IF res = "ok"
                THEN Deliver([pop EXCEPT !.user = "account"], c, "ok")
                ELSE clearAuth(to("checkAuthStatus:catch"), c)
          [] f = "checkAuthStatus:validateSession" ->
                \* response.valid sets the token; a failed request is caught
                IF res = "ok"
                THEN Deliver([pop EXCEPT !.token = TRUE, !.user = "account",
                                         !.stored = "valid"], c, "ok")
                ELSE Deliver(pop, c, "ok")
          [] f = "checkAuthStatus:catch" -> Deliver(pop, c, "err")
          [] f = "init" ->
                IF res = "ok"
                THEN Deliver(setupAutoTokenRefresh(pop), c, "ok")
                ELSE Deliver(pop, c, "err")
          [] f = "login" ->
                IF res = "ok"
                THEN Deliver(setupAutoTokenRefresh(
                                 [pop EXCEPT !.token = TRUE, !.user = "account",
                                             !.stored = "valid"]),
                             c, "ok")
                ELSE clearAuth(to("login:catch"), c)
          [] OTHER -> \* login:catch
                Deliver(pop, c, "err")

NewAuthCall(a, by, frames) ==
    [a EXCEPT !.calls = Append(@, [by |-> by, frames |-> frames, wait |-> "",
                                  signal |-> 0, out |-> ""])]

\* init(): checkAuthStatus() up to its first request, by what sessionStorage holds
authInit(a) ==
    LET c == Len(a.calls) + 1
        a1 == NewAuthCall(a, "app", <<"init">>)
    IN  CASE a.stored = "none" ->
                Deliver([a1 EXCEPT !.calls[c].frames =
                            Append(@, "checkAuthStatus:validateToken")], c, "false")
          [] a.stored = "valid" ->
                Deliver([a1 EXCEPT !.calls[c].frames =
                            Append(@, "checkAuthStatus:validateToken")], c, "true")
          [] OTHER -> \* payload.exp <= now
                refreshToken([a1 EXCEPT !.calls[c].frames =
                    @ \o <<"checkAuthStatus:validateToken", "validateToken">>], c)

\* login(credentials); wellFormed: validateCredentials does not throw
login(a, wellFormed) ==
    LET c == Len(a.calls) + 1
    IN  IF wellFormed
        THEN authRequest(NewAuthCall(a, "user", <<"login">>), c, "/auth/login")
        ELSE clearAuth(NewAuthCall(a, "user", <<"login:catch">>), c)

\* enableDemoMode()
enableDemoMode(a) == [a EXCEPT !.isDemoMode = TRUE, !.user = "demo"]

\* The callback of the timeout id: this.refreshToken()
refreshTimerFired(a, id) ==
    LET c == Len(a.calls) + 1
    IN  refreshToken(NewAuthCall([a EXCEPT !.timers = @ \ {id}], "timer", <<>>), c)

AuthStep(a) ==
    /\ Len(a.calls) <= MaxAuthCalls
    /\ auth' = a
    /\ UNCHANGED <<storeVars, errorBoundary, player>>

CallAuthInit ==
    /\ auth.calls = <<>>
    /\ AuthStep(authInit(auth))

CallLogin(wellFormed) ==
    /\ Len(auth.calls) < MaxAuthCalls
    /\ AuthStep(login(auth, wellFormed))

CallEnableDemoMode ==
    /\ ~auth.isDemoMode
    /\ AuthStep(enableDemoMode(auth))

RefreshTimerFire ==
    /\ Len(auth.calls) < MaxAuthCalls
    /\ \E id \in auth.timers : AuthStep(refreshTimerFired(auth, id))

\* The response to the request call c waits for: "ok", "no" (a response whose
\* valid / success is false) or "err" (a failed request, the one outcome of a
\* request whose controller was aborted)
AuthRespond(c, res) ==
    /\ c \in 1..Len(auth.calls)
    /\ auth.calls[c].wait # ""
    /\ auth.calls[c].signal \in auth.aborted => res = "err"
    /\ res = "no" => auth.calls[c].wait \in {"/auth/session", "/auth/login"}
    /\ AuthStep(Deliver(auth, c, res))

-----------------------------------------------------------------------------
(* Authentication: the application calls init() with or without a token in *)
(* sessionStorage, the user logs in and turns demo mode on, the refresh    *)
(* timeout expires, the server answers                                     *)

StoredTokens == {"none", "valid", "expired"}

InitAuth ==
    /\ state = InitialState(TRUE)
    /\ history = <<>>
    /\ isMutating = FALSE
    /\ subscribers = <<>>
    /\ microtasks = <<>>
    /\ subs = <<>>
    /\ procs = <<>>
    /\ requests = <<>>
    /\ storage = <<>>
    /\ saveTimer = FALSE
    /\ now = 0
    /\ notifyLog = <<>>
    /\ unsubscribes = {}
    /\ returned = <<>>
    /\ storageFull = FALSE
    /\ auth \in {[AuthConstructed EXCEPT !.stored = t] : t \in StoredTokens}
    /\ errorBoundary = BoundaryConstructed
    /\ player = PlayerConstructed(<<>>)

NextAuth ==
    \/ CallAuthInit
    \/ \E wellFormed \in BOOLEAN : CallLogin(wellFormed)
    \/ CallEnableDemoMode
    \/ RefreshTimerFire
    \/ \E c \in 1..Len(auth.calls), res \in {"ok", "no", "err"} : AuthRespond(c, res)

SpecAuth == InitAuth /\ [][NextAuth]_vars

-----------------------------------------------------------------------------
(* Properties of the token refresh *)

\* The step continues a refreshToken() call that the timeout made
TimerDrivenStep ==
    \E c \in 1..Len(auth.calls) :
        /\ auth.calls[c].by = "timer"
        /\ auth'.calls[c] # auth.calls[c]

\* C37: the refresh timeout is armed only while a token is held, at most
\* one is armed at a time, and a session in demo mode that holds no token is
\* not cleared by a refreshToken() call the timeout made.
C37_RefreshTimerOnlyWithToken ==
    [][/\ auth'.timers # {} => auth'.token
       /\ Cardinality(auth'.timers) <= 1
       /\ (auth.isDemoMode /\ ~auth.token /\ TimerDrivenStep) => auth'.isDemoMode]_vars


-----------------------------------------------------------------------------
(* ComprehensiveErrorBoundary.  Time is counted in ticks of 30 s; a        *)
(* timeout runs within the tick in which it is due.                        *)

maxErrors == 10
\* this.errorWindow = 60000, in ticks
errorWindow == 2

Max(x, y) == IF x >= y THEN x ELSE y

\* shouldSuppressError with the decrement due one tick before the window ends
shouldSuppressError_ShortWindow(b, t) ==
    [b EXCEPT !.errorCount = @ + 1,
              !.timers = Append(@, t + errorWindow - 1)]

\* shouldSuppressError() at time t: the counter after the increment, with the
\* decrement timeout armed; the result is errorCount > maxErrors
shouldSuppressError(b, t) ==
    [b EXCEPT !.errorCount = @ + 1,
              !.timers = Append(@, t + errorWindow)]

\* The end of both handlers: showError and reportError unless suppressed
showUnlessSuppressed(b, t) ==
    LET b1 == shouldSuppressError(b, t)
    IN  IF b1.errorCount > maxErrors THEN b1
        ELSE [b1 EXCEPT !.shown = Append(@, t)]

\* init()
boundaryInit(b) == [b EXCEPT !.isActive = TRUE]

\* handleGlobalError(event) at time t
handleGlobalError(b, t) ==
    showUnlessSuppressed([b EXCEPT !.events = @ + 1], t)

\* handlePromiseRejection(event) at time t, for event.reason = reason
handlePromiseRejection(b, t, reason) ==
    LET b1 == [b EXCEPT !.events = @ + 1]
    IN  IF reason \in b.unhandledRejections THEN b1
        ELSE showUnlessSuppressed(
                 [b1 EXCEPT !.unhandledRejections = @ \cup {reason}], t)

\* The callback of the oldest decrement timeout
decrement(b) ==
    [b EXCEPT !.errorCount = Max(0, @ - 1), !.timers = Tail(@)]

\* The callback of the timeout handlePromiseRejection armed for reason
forget(b, reason) == [b EXCEPT !.unhandledRejections = @ \ {reason}]

BoundaryStep(b) ==
    /\ b.events <= MaxErrorEvents
    /\ errorBoundary' = b
    /\ UNCHANGED <<storeVars, auth, player>>

CallBoundaryInit ==
    /\ ~errorBoundary.isActive
    /\ BoundaryStep(boundaryInit(errorBoundary))

\* window 'error', once init() has installed the listener
ErrorEvent ==
    /\ errorBoundary.isActive
    /\ BoundaryStep(handleGlobalError(errorBoundary, now))

\* window 'unhandledrejection', once init() has installed the listener
RejectionEvent(reason) ==
    /\ errorBoundary.isActive
    /\ BoundaryStep(handlePromiseRejection(errorBoundary, now, reason))

DecrementTimerFire ==
    /\ errorBoundary.timers # <<>>
    /\ Head(errorBoundary.timers) <= now
    /\ BoundaryStep(decrement(errorBoundary))

ForgetTimerFire(reason) ==
    /\ reason \in errorBoundary.unhandledRejections
    /\ BoundaryStep(forget(errorBoundary, reason))

\* time passes, once the timeouts that are due have run
BoundaryTick ==
    /\ now < MaxClock
    /\ errorBoundary.timers # <<>> => Head(errorBoundary.timers) > now
    /\ now' = now + 1
    /\ UNCHANGED <<state, history, isMutating, subscribers, microtasks, subs, procs,
                   requests, storage, saveTimer, notifyLog, unsubscribes, returned,
                   storageFull, auth, errorBoundary, player>>

-----------------------------------------------------------------------------
(* Errors: error and unhandledrejection events arrive in bursts as time    *)
(* passes                                                                  *)

Reasons == {"reason1"}

NextErrors ==
    \/ CallBoundaryInit
    \/ ErrorEvent
    \/ \E reason \in Reasons : RejectionEvent(reason)
    \/ DecrementTimerFire
    \/ \E reason \in Reasons : ForgetTimerFire(reason)
    \/ BoundaryTick

SpecErrors == Init /\ [][NextErrors]_vars

-----------------------------------------------------------------------------
(* Properties of the rate limiting *)

\* The number of calls that displayed and reported their error at a time in from..to
ShownIn(from, to) ==
    Cardinality({i \in 1..Len(errorBoundary.shown) :
                    errorBoundary.shown[i] >= from /\ errorBoundary.shown[i] <= to})

\* C38: in every window of errorWindow (errorWindow consecutive ticks) at
\* most maxErrors calls of the two handlers have displayed and reported their
\* error, so that every further call in a window that holds maxErrors of them
\* was suppressed; and errorCount is not negative.
C38_AtMostMaxErrorsPerWindow ==
    /\ \A t \in 0..now : ShownIn(t, t + errorWindow - 1) <= maxErrors
    /\ errorBoundary.errorCount >= 0

\* Eleven events arrived in one window: ten were shown and the eleventh was
\* suppressed; after the window an event was shown again
C38_Witness ==
    /\ ShownIn(0, 0) = maxErrors
    /\ errorBoundary.events >= maxErrors + 2
    /\ \E i \in 1..Len(errorBoundary.shown) : errorBoundary.shown[i] >= errorWindow
    /\ Len(errorBoundary.shown) < errorBoundary.events


-----------------------------------------------------------------------------
(* AdvancedVideoPlayer.  load() awaits nothing but HTMLMediaElement.load(), *)
(* which returns undefined, so a switchMedia call runs to its end in the   *)
(* microtasks of the task that made it; only a play() promise of an        *)
(* element settles in a later task.                                        *)

\* this.mediaElements[index]?.tagName
TagName(pl, index) ==
    IF index >= 0 /\ index < Len(pl.mediaElements)
    THEN pl.mediaElements[index + 1] ELSE "undefined"

\* play(), up to `await this.playPromise`
play(pl) ==
    IF pl.isPlaying \/ TagName(pl, pl.currentMediaIndex) # "VIDEO" THEN pl
    ELSE [pl EXCEPT !.playPromise = TRUE,
                    !.paused = @ \ {pl.currentMediaIndex},
                    !.plays = Append(@, [index |-> pl.currentMediaIndex,
                                         status |-> "pending"])]

\* play() resumed after `await this.playPromise`: isPlaying = true, or the
\* catch; finally playPromise = null.  The element dispatches 'playing' when
\* playback has started and stays paused when play() was refused.
playSettled(pl, k, ok) ==
    LET index == pl.plays[k].index
    IN  IF ok
        THEN [pl EXCEPT !.plays[k].status = "resolved",
                        !.isPlaying = TRUE,
                        !.playPromise = FALSE,
                        !.events = @ \cup {<<"playing", index>>}]
        ELSE [pl EXCEPT !.plays[k].status = "rejected",
                        !.playPromise = FALSE,
                        !.paused = @ \cup {index}]

\* pause(): the element dispatches 'pause' when it was not paused
pause(pl) ==
    IF ~pl.isPlaying THEN pl
    ELSE LET video == TagName(pl, pl.currentMediaIndex) = "VIDEO"
         IN  [pl EXCEPT !.paused = IF video THEN @ \cup {pl.currentMediaIndex} ELSE @,
                        !.events = IF video /\ pl.currentMediaIndex \notin pl.paused
                                   THEN @ \cup {<<"pause", pl.currentMediaIndex>>} ELSE @,
                        !.isPlaying = IF video THEN FALSE ELSE @,
                        !.playPromise = FALSE]

\* load(): isLoading is set, the src of the current element is assigned, and
\* the finally block clears isLoading
load(pl) ==
    IF pl.isLoading \/ TagName(pl, pl.currentMediaIndex) = "undefined" THEN pl
    ELSE [pl EXCEPT !.loaded = @ \cup {pl.currentMediaIndex}]

\* switchMedia(index)
switchMedia(pl, index) ==
    IF index = pl.currentMediaIndex \/ index < 0 \/ index >= Len(pl.mediaElements)
    THEN pl
    ELSE LET pl1 == load([pause(pl) EXCEPT !.currentMediaIndex = index])
         IN  IF pl1.isPlaying THEN play(pl1) ELSE pl1

\* handlePlaying(index) / handlePause(index)
handleMediaEvent(pl, ev) ==
    [pl EXCEPT !.events = @ \ {ev},
               !.isPlaying = (ev[1] = "playing")]

\* handleEnded(index)
handleEnded(pl, index) ==
    LET pl1 == [pl EXCEPT !.isPlaying = FALSE, !.paused = @ \cup {index}]
        nextIndex == pl.currentMediaIndex + 1
    IN  IF nextIndex < Len(pl.mediaElements) THEN switchMedia(pl1, nextIndex) ELSE pl1

PlayerStep(pl) ==
    /\ Len(pl.calls) <= MaxPlayerCalls
    /\ player' = pl
    /\ UNCHANGED <<storeVars, auth, errorBoundary>>

Called(pl, op, index) == [pl EXCEPT !.calls = Append(@, [op |-> op, index |-> index])]

CallPlay ==
    /\ Len(player.calls) < MaxPlayerCalls
    /\ PlayerStep(Called(play(player), "play", 0))

CallPause ==
    /\ Len(player.calls) < MaxPlayerCalls
    /\ PlayerStep(Called(pause(player), "pause", 0))

CallSwitchMedia(index) ==
    /\ Len(player.calls) < MaxPlayerCalls
    /\ PlayerStep(Called(switchMedia(player, index), "switchMedia", index))

\* The play() promise k of an element settles
PlaySettle(k, ok) ==
    /\ k \in 1..Len(player.plays)
    /\ player.plays[k].status = "pending"
    /\ PlayerStep(playSettled(player, k, ok))

\* The element dispatches a queued 'playing' or 'pause' event
MediaEvent(ev) ==
    /\ ev \in player.events
    /\ PlayerStep(handleMediaEvent(player, ev))

\* An element that plays reaches its end and dispatches 'ended'
MediaEnded(index) ==
    /\ TagName(player, index) = "VIDEO"
    /\ index \notin player.paused
    /\ \A k \in 1..Len(player.plays) :
          player.plays[k].index = index => player.plays[k].status # "pending"
    /\ PlayerStep(handleEnded(player, index))

-----------------------------------------------------------------------------
(* Playback: a player over a container of videos and images is played,     *)
(* paused and switched to another media element                             *)

RECURSIVE SeqsUpTo(_, _)
SeqsUpTo(S, n) ==
    IF n = 0 THEN {<<>>}
    ELSE LET shorter == SeqsUpTo(S, n - 1)
         IN  shorter \cup {Append(q, x) : q \in shorter, x \in S}

InitPlayer ==
    /\ state = InitialState(TRUE)
    /\ history = <<>>
    /\ isMutating = FALSE
    /\ subscribers = <<>>
    /\ microtasks = <<>>
    /\ subs = <<>>
    /\ procs = <<>>
    /\ requests = <<>>
    /\ storage = <<>>
    /\ saveTimer = FALSE
    /\ now = 0
    /\ notifyLog = <<>>
    /\ unsubscribes = {}
    /\ returned = <<>>
    /\ storageFull = FALSE
    /\ auth = AuthConstructed
    /\ errorBoundary = BoundaryConstructed
    /\ player \in {PlayerConstructed(tags) : tags \in SeqsUpTo({"VIDEO", "IMG"}, MaxMedia)}

NextPlayer ==
    \/ CallPlay
    \/ CallPause
    \/ \E index \in -1..MaxMedia : CallSwitchMedia(index)
    \/ \E k \in 1..Len(player.plays), ok \in BOOLEAN : PlaySettle(k, ok)
    \/ \E ev \in player.events : MediaEvent(ev)
    \/ \E index \in 0..(MaxMedia - 1) : MediaEnded(index)

SpecPlayer == InitPlayer /\ [][NextPlayer]_vars

-----------------------------------------------------------------------------
(* Properties of switchMedia *)

\* C39: a switchMedia(index) call with the current index or an index outside
\* the media elements leaves the player as it was; any other call ends with
\* currentMediaIndex = index and with isPlaying as it was before the call.
C39_SwitchKeepsPlaying ==
    [][(/\ Len(player'.calls) = Len(player.calls) + 1
        /\ Last(player'.calls).op = "switchMedia")
       => LET index == Last(player'.calls).index
          IN  IF \/ index = player.currentMediaIndex
                 \/ index < 0
                 \/ index >= Len(player.mediaElements)
              THEN player' = Called(player, "switchMedia", index)
              ELSE /\ player'.currentMediaIndex = index
                   /\ player'.isPlaying = player.isPlaying]_vars

====
